---- MODULE Spec2Model ----
(***************************************************************************)
(* Model of the BoxedBot review pipeline (nathanmdj/boxedbot-mentor):       *)
(* comment prioritisation (PRAnalyzerService._limit_comments), diff line   *)
(* placement (DiffParser / CommentService), review posting, batched file   *)
(* analysis and the retry paths.                                            *)
(***************************************************************************)
EXTENDS Integers, Sequences, FiniteSets, TLC

VARIABLES
    lim_comments,   \* _limit_comments: the `comments` argument
    lim_max,        \* _limit_comments: the `max_comments` argument
    lim_once,       \* result of _limit_comments(comments, max_comments)
    lim_twice,      \* result of _limit_comments(lim_once, max_comments)
    lim_pc          \* "input" | "once" | "twice"

VARIABLES
    ml_files,       \* _map_line_number: pull_request.get_files()
    ml_comment,     \* _map_line_number: the `comment` argument
    ml_result,      \* _map_line_number: the value returned
    ml_pc           \* "input" | "done"

VARIABLES
    rv_files,           \* post_pr_review: pull_request.get_files()
    rv_comments,        \* post_pr_review: the `comments` argument
    rv_pc,              \* where post_pr_review stands
    rv_review_comments, \* post_pr_review: the local review_comments
    rv_reviews,         \* structured reviews created on the pull request
    rv_issue_comments,  \* issue comments created on the pull request
    rv_calls,           \* posting calls made so far, with their outcome
    rv_result           \* what post_pr_review returned or raised

VARIABLES
    an_files,        \* _analyze_files: the `files_to_analyze` argument
    an_pc,           \* where _analyze_files stands
    an_i,            \* _analyze_files: the loop variable i
    an_task,         \* per file: the state of its _analyze_single_file task
    an_attempts,     \* per file: attempt number of its analyze_code_changes
                     \* call, 0 when no call is under way
    an_result,       \* per file: what its task returned or raised
    an_all_comments  \* _analyze_files: the local all_comments

VARIABLES
    rt_path,        \* the retry path that is invoked
    rt_pc,          \* where the invocation stands
    rt_attempts,    \* upstream calls made by this invocation
    rt_errors,      \* the exception of every failed upstream call, in order
    rt_raised       \* the exception that reached the caller

VARIABLES
    pl_pr_files,    \* analyze_pr_async: the files of the pull request
    pl_config,      \* analyze_pr_async: what get_repo_config returns
    pl_draft,       \* pull_request.draft
    pl_pc,          \* where analyze_pr_background stands
    pl_limited,     \* analyze_pr_async: the local limited_comments
    pl_limit_calls, \* calls of _limit_comments made by this run
    pl_analysis,    \* what analyze_pr_async returned or raised
    pl_result       \* the status analyze_pr_background returned

VARIABLES
    pa_response,    \* _parse_ai_response: the `response` argument
    pa_pc,          \* "input", then "done"
    pa_result       \* _parse_ai_response: the list returned

VARIABLES
    cb_state,       \* CircuitBreaker.state
    cb_failure_count,\* CircuitBreaker.failure_count
    cb_last_failure_time,\* CircuitBreaker.last_failure_time
    cb_now,         \* time.time(), in units of half a recovery_timeout
    cb_pc,          \* per caller: where its with_retry_and_circuit_breaker stands
    cb_attempt,     \* per caller: the loop variable attempt of execute
    cb_invocations, \* per caller: invocations of the operation by this execute
    cb_outcome,     \* per caller: how its last invocation of the operation ended
    cb_raised,      \* per caller: what reached the caller of execute
    cb_streak,      \* failed invocations completed since the last successful one
    cb_total        \* invocations of the operation made so far

VARIABLES
    rl_requests,    \* self._requests: a function from the keys present to their deque of timestamps
    rl_limits,      \* the limits each key is checked with (None: the default limits)
    rl_now,         \* time.time()
    rl_ticks,       \* number of times the clock has advanced
    rl_calls,       \* number of calls made
    rl_last,        \* the last call: operation, key, time, _requests before it, and its outcome
    rl_admitted,    \* every timestamp a key was admitted at, in order
    rl_was_reset    \* the keys reset_limits was called for

limVars == <<lim_comments, lim_max, lim_once, lim_twice, lim_pc>>
mlVars == <<ml_files, ml_comment, ml_result, ml_pc>>
rvVars == <<rv_files, rv_comments, rv_pc, rv_review_comments, rv_reviews,
            rv_issue_comments, rv_calls, rv_result>>

anVars == <<an_files, an_pc, an_i, an_task, an_attempts, an_result,
            an_all_comments>>
rtVars == <<rt_path, rt_pc, rt_attempts, rt_errors, rt_raised>>
plVars == <<pl_pr_files, pl_config, pl_draft, pl_pc, pl_limited, pl_limit_calls,
            pl_analysis, pl_result>>

paVars == <<pa_response, pa_pc, pa_result>>

cbVars == <<cb_state, cb_failure_count, cb_last_failure_time, cb_now, cb_pc, cb_attempt, cb_invocations, cb_outcome, cb_raised, cb_streak, cb_total>>

rlVars == <<rl_requests, rl_limits, rl_now, rl_ticks, rl_calls, rl_last, rl_admitted, rl_was_reset>>

vars == <<limVars, mlVars, rvVars, anVars, rtVars, plVars, paVars, cbVars, rlVars>>

\* what an action of one component leaves alone
OthersOfLim == <<mlVars, rvVars, anVars, rtVars, plVars, paVars, cbVars, rlVars>>
OthersOfMl == <<limVars, rvVars, anVars, rtVars, plVars, paVars, cbVars, rlVars>>
OthersOfRv == <<limVars, mlVars, anVars, rtVars, plVars, paVars, cbVars, rlVars>>
OthersOfAn == <<limVars, mlVars, rvVars, rtVars, plVars, paVars, cbVars, rlVars>>
OthersOfRt == <<limVars, mlVars, rvVars, anVars, plVars, paVars, cbVars, rlVars>>
OthersOfPl == <<limVars, mlVars, rtVars, paVars, cbVars, rlVars>>
OthersOfRl == <<limVars, mlVars, rvVars, anVars, rtVars, plVars, paVars, cbVars>>
OthersOfCb == <<limVars, mlVars, rvVars, anVars, rtVars, plVars, paVars, rlVars>>
OthersOfPa == <<limVars, mlVars, rvVars, anVars, rtVars, plVars, cbVars, rlVars>>

\* Python's None and an Optional value
None == <<>>
Some(x) == <<x>>

(***************************************************************************)
(* Generic helpers                                                         *)
(***************************************************************************)
Min(a, b) == IF a <= b THEN a ELSE b
Max(a, b) == IF a >= b THEN a ELSE b
Abs(a) == IF a < 0 THEN -a ELSE a

\* Python's s[:n] on a list
SliceTo(s, n) ==
    IF n >= 0 THEN SubSeq(s, 1, Min(n, Len(s)))
    ELSE SubSeq(s, 1, Max(0, Len(s) + n))

(***************************************************************************)
(* Strings are sequences of one-character strings, so that str.lower() and *)
(* the `in` substring test are computed and not assumed.                   *)
(***************************************************************************)
UpperCase == <<"A","B","C","D","E","F","G","H","I","J","K","L","M",
               "N","O","P","Q","R","S","T","U","V","W","X","Y","Z">>
LowerCase == <<"a","b","c","d","e","f","g","h","i","j","k","l","m",
               "n","o","p","q","r","s","t","u","v","w","x","y","z">>

Chars == {UpperCase[i] : i \in 1..Len(UpperCase)}
             \cup {LowerCase[i] : i \in 1..Len(LowerCase)} \cup {" "}

LowerChar ==
    [c \in Chars |->
        IF \E i \in 1..Len(UpperCase) : UpperCase[i] = c
        THEN LowerCase[CHOOSE i \in 1..Len(UpperCase) : UpperCase[i] = c]
        ELSE c]

\* str.lower()
lower(s) == [i \in 1..Len(s) |-> LowerChar[s[i]]]

\* Python's `p in s` on strings
Contains(s, p) ==
    \E i \in 1..(Len(s) - Len(p) + 1) : SubSeq(s, i, i + Len(p) - 1) = p

KwBug == <<"b","u","g">>
KwError == <<"e","r","r","o","r">>
KwVulnerability == <<"v","u","l","n","e","r","a","b","i","l","i","t","y">>

(***************************************************************************)
(* PRAnalyzerService._limit_comments                                       *)
(***************************************************************************)
HighRiskLimit == 10
LowRiskLimit == 5
\* RepoConfig.validate_max_comments: 1 <= max_comments_per_pr <= 50
MaxCommentsLow == 1
MaxCommentsHigh == 50

\* mutant: the keyword test without .lower()
is_high_risk_case_sensitive(c) ==
    \/ c.type = "error"
    \/ c.category = "security"
    \/ Contains(c.message, KwBug)
    \/ Contains(c.message, KwError)
    \/ Contains(c.message, KwVulnerability)

is_high_risk(c) ==
    \/ c.type = "error"
    \/ c.category = "security"
    \/ LET m == lower(c.message)
       IN  \/ Contains(m, KwBug)
           \/ Contains(m, KwError)
           \/ Contains(m, KwVulnerability)

has_high_risk(comments) ==
    \E i \in 1..Len(comments) : is_high_risk(comments[i])

\* mutant: the configured maximum is not applied
effective_max_uncapped(comments, max_comments) ==
    IF has_high_risk(comments) THEN HighRiskLimit ELSE LowRiskLimit

\* mutant: the risk level is not consulted
effective_max_norisk(comments, max_comments) ==
    Min(HighRiskLimit, max_comments)

effective_max(comments, max_comments) ==
    Min(IF has_high_risk(comments) THEN HighRiskLimit ELSE LowRiskLimit,
        max_comments)

priority_order(t) ==
    CASE t = "error" -> 0
      [] t = "warning" -> 1
      [] t = "suggestion" -> 2
      [] OTHER -> 3

BoolRank(b) == IF b THEN 1 ELSE 0

\* the sort key of sorted(comments, key=lambda c: (...))
sort_key(c) ==
    LET m == lower(c.message)
    IN  << priority_order(c.type),
           BoolRank(c.category # "security"),
           BoolRank(~Contains(m, KwBug)),
           BoolRank(~Contains(m, KwError)),
           -c.file_changes >>

\* Python's tuple comparison a < b (tuples of equal length)
TupleLess(a, b) ==
    \E i \in 1..Len(a) :
        /\ a[i] < b[i]
        /\ \A j \in 1..(i - 1) : a[j] = b[j]

\* mutant: an unstable sort, an element goes before the elements of equal key
RECURSIVE StableOrder_ties_first(_, _)
StableOrder_ties_first(keys, n) ==
    IF n = 0 THEN <<>>
    ELSE LET prev == StableOrder_ties_first(keys, n - 1)
             k == Cardinality({j \in 1..Len(prev) : TupleLess(keys[prev[j]], keys[n])})
         IN  SubSeq(prev, 1, k) \o <<n>> \o SubSeq(prev, k + 1, Len(prev))

\* Python's sorted(): a stable sort.  Returns the permutation of indices.
RECURSIVE StableOrder(_, _)
StableOrder(keys, n) ==
    IF n = 0 THEN <<>>
    ELSE LET prev == StableOrder(keys, n - 1)
             \* the new element goes after every element whose key is <= its key
             k == Cardinality({j \in 1..Len(prev) : ~TupleLess(keys[n], keys[prev[j]])})
         IN  SubSeq(prev, 1, k) \o <<n>> \o SubSeq(prev, k + 1, Len(prev))

sorted_comments(comments) ==
    LET keys == [i \in 1..Len(comments) |-> sort_key(comments[i])]
        order == StableOrder(keys, Len(comments))
    IN  [i \in 1..Len(comments) |-> comments[order[i]]]

\* mutant: the comments are sorted even when none has to be dropped
limit_comments_always_sorted(comments, max_comments) ==
    IF comments = <<>> THEN comments
    ELSE SliceTo(sorted_comments(comments), effective_max(comments, max_comments))

limit_comments(comments, max_comments) ==
    IF comments = <<>> THEN comments
    ELSE LET em == effective_max(comments, max_comments)
         IN  IF Len(comments) <= em THEN comments
             ELSE SliceTo(sorted_comments(comments), em)


(***************************************************************************)
(* DiffParser (app/utils/file_utils.py).  A patch is the list of its lines *)
(* (patch.split('\n')); a line is a sequence of characters.                *)
(***************************************************************************)
\* str.startswith
startswith(s, p) == Len(s) >= Len(p) /\ SubSeq(s, 1, Len(p)) = p

\* s[1:]
Tail1(s) == SubSeq(s, 2, Len(s))

Digits == <<"0","1","2","3","4","5","6","7","8","9">>
IsDigit(c) == \E d \in 1..Len(Digits) : Digits[d] = c
DigitVal(c) == (CHOOSE d \in 1..Len(Digits) : Digits[d] = c) - 1

\* int() of a non-empty run of decimal digits
RECURSIVE ToInt(_)
ToInt(ds) ==
    IF ds = <<>> THEN 0
    ELSE 10 * ToInt(SubSeq(ds, 1, Len(ds) - 1)) + DigitVal(ds[Len(ds)])

\* the index after the longest run of digits of s that starts at i (\d* , greedy)
RECURSIVE SkipDigits(_, _)
SkipDigits(s, i) ==
    IF i <= Len(s) /\ IsDigit(s[i]) THEN SkipDigits(s, i + 1) ELSE i

\* the literal p occurs in s at index i
LitAt(s, i, p) == i + Len(p) - 1 <= Len(s) /\ SubSeq(s, i, i + Len(p) - 1) = p

\* re.match(r'@@ -(\d+),?(\d*) \+(\d+),?(\d*) @@', header): the groups 1 and
\* 3 of the match, or None
hunk_header_match(header) ==
    IF ~LitAt(header, 1, <<"@","@"," ","-">>) THEN None
    ELSE LET a1 == 5
             a2 == SkipDigits(header, a1)                      \* (\d+)
             a3 == IF LitAt(header, a2, <<",">>) THEN a2 + 1 ELSE a2   \* ,?
             a4 == SkipDigits(header, a3)                      \* (\d*)
             b1 == a4 + 2                                      \* after " +"
             b2 == SkipDigits(header, b1)                      \* (\d+)
             b3 == IF LitAt(header, b2, <<",">>) THEN b2 + 1 ELSE b2
             b4 == SkipDigits(header, b3)
         IN  IF /\ a2 > a1
                /\ LitAt(header, a4, <<" ","+">>)
                /\ b2 > b1
                /\ LitAt(header, b4, <<" ","@","@">>)
             THEN Some([g1 |-> SubSeq(header, a1, a2 - 1),
                        g3 |-> SubSeq(header, b1, b2 - 1)])
             ELSE None

\* mutant: the starts are taken as line offsets (0-based)
header_info_of_zero_based(match) ==
    IF match # None
    THEN [old_start |-> ToInt(match[1].g1) - 1, new_start |-> ToInt(match[1].g3) - 1]
    ELSE [old_start |-> 0, new_start |-> 0]

\* _parse_hunk_header, lines 228-238: the starts of a match, 0 without one
header_info_of(match) ==
    IF match # None
    THEN [old_start |-> ToInt(match[1].g1), new_start |-> ToInt(match[1].g3)]
    ELSE [old_start |-> 0, new_start |-> 0]

\* DiffParser._parse_hunk_header
parse_hunk_header(header) == header_info_of(hunk_header_match(header))

EmptyDiff ==
    [lines |-> <<>>, added_lines |-> <<>>, removed_lines |-> <<>>,
     context_lines |-> <<>>]

\* mutant: only None is taken for a missing patch
PatchIsFalsy_none_only(patch) == patch = <<>>

\* `not patch`: None or the empty string
PatchIsFalsy(patch) == patch = <<>> \/ patch = << <<>> >>

\* the body of the loop of parse_diff_lines for the lines i.. of the patch
RECURSIVE ParseFrom(_, _, _, _, _)
ParseFrom(lines, i, current_line_old, current_line_new, acc) ==
    IF i > Len(lines) THEN acc
    ELSE LET line == lines[i] IN
         IF startswith(line, <<"@","@">>)
         THEN LET header_info == parse_hunk_header(line)
              IN  ParseFrom(lines, i + 1, header_info.old_start,
                            header_info.new_start, acc)
         ELSE IF startswith(line, <<"+">>) /\ ~startswith(line, <<"+","+","+">>)
         THEN LET line_info == [content |-> Tail1(line),
                                old_line |-> current_line_old,
                                new_line |-> current_line_new,
                                type |-> "added"]
              IN  ParseFrom(lines, i + 1, current_line_old, current_line_new + 1,
                            [acc EXCEPT !.lines = Append(@, line_info),
                                        !.added_lines = Append(@, line_info)])
         ELSE IF startswith(line, <<"-">>) /\ ~startswith(line, <<"-","-","-">>)
         THEN LET line_info == [content |-> Tail1(line),
                                old_line |-> current_line_old,
                                new_line |-> current_line_new,
                                type |-> "removed"]
              IN  ParseFrom(lines, i + 1, current_line_old + 1, current_line_new,
                            [acc EXCEPT !.lines = Append(@, line_info),
                                        !.removed_lines = Append(@, line_info)])
         ELSE LET line_info == [content |-> line,
                                old_line |-> current_line_old,
                                new_line |-> current_line_new,
                                type |-> "context"]
              IN  ParseFrom(lines, i + 1, current_line_old + 1,
                            current_line_new + 1,
                            [acc EXCEPT !.lines = Append(@, line_info),
                                        !.context_lines = Append(@, line_info)])

\* DiffParser.parse_diff_lines
parse_diff_lines(patch) ==
    IF PatchIsFalsy(patch) THEN EmptyDiff
    ELSE ParseFrom(patch, 1, 0, 0, EmptyDiff)

(***************************************************************************)
(* CommentService: line placement                                          *)
(***************************************************************************)
\* sorted(set(xs)) of a set of integers
RECURSIVE SortedSeq(_)
SortedSeq(S) ==
    IF S = {} THEN <<>>
    ELSE LET m == CHOOSE x \in S : \A y \in S : x <= y
         IN  <<m>> \o SortedSeq(S \ {m})

\* mutant: the filter new_line > 0 is missing
valid_lines_of_unfiltered(diff_info) ==
    SortedSeq({diff_info.added_lines[i].new_line :
                   i \in 1..Len(diff_info.added_lines)}
              \cup {diff_info.context_lines[i].new_line :
                   i \in 1..Len(diff_info.context_lines)})

\* mutant: the context lines of the hunks are left out
valid_lines_of_added_only(diff_info) ==
    SortedSeq({diff_info.added_lines[i].new_line :
                   i \in {j \in 1..Len(diff_info.added_lines) :
                            diff_info.added_lines[j].new_line > 0}})

\* _get_valid_diff_lines, lines 215-225
valid_lines_of(diff_info) ==
    SortedSeq({diff_info.added_lines[i].new_line :
                   i \in {j \in 1..Len(diff_info.added_lines) :
                            diff_info.added_lines[j].new_line > 0}}
              \cup {diff_info.context_lines[i].new_line :
                   i \in {j \in 1..Len(diff_info.context_lines) :
                            diff_info.context_lines[j].new_line > 0}})

\* CommentService._get_valid_diff_lines
get_valid_diff_lines(patch) == valid_lines_of(parse_diff_lines(patch))

\* mutant: `distance <= min_distance`, the last of two equidistant lines wins
RECURSIVE ClosestFrom_last_tie(_, _, _, _, _)
ClosestFrom_last_tie(target_line, valid_lines, max_distance, i, best) ==
    IF i > Len(valid_lines) THEN best
    ELSE LET valid_line == valid_lines[i]
             distance == Abs(valid_line - target_line)
         IN  IF distance <= max_distance
                /\ (best = None \/ distance <= best[1].min_distance)
             THEN ClosestFrom_last_tie(target_line, valid_lines, max_distance, i + 1,
                      Some([closest_line |-> valid_line, min_distance |-> distance]))
             ELSE ClosestFrom_last_tie(target_line, valid_lines, max_distance,
                                       i + 1, best)

\* the loop of _find_closest_valid_line over valid_lines[i..]; `best` is
\* (closest_line, min_distance), None standing for (None, inf)
RECURSIVE ClosestFrom(_, _, _, _, _)
ClosestFrom(target_line, valid_lines, max_distance, i, best) ==
    IF i > Len(valid_lines) THEN best
    ELSE LET valid_line == valid_lines[i]
             distance == Abs(valid_line - target_line)
         IN  IF distance <= max_distance
                /\ (best = None \/ distance < best[1].min_distance)
             THEN ClosestFrom(target_line, valid_lines, max_distance, i + 1,
                      Some([closest_line |-> valid_line, min_distance |-> distance]))
             ELSE ClosestFrom(target_line, valid_lines, max_distance, i + 1, best)

\* closest_line of the pair the loop ends with
ClosestLineOf(best) == IF best = None THEN None ELSE Some(best[1].closest_line)

\* mutant: the requested line plus the distance is returned
find_closest_valid_line_offset(target_line, valid_lines, max_distance) ==
    IF valid_lines = <<>> THEN None
    ELSE IF ClosestFrom(target_line, valid_lines, max_distance, 1, None) = None
         THEN None
         ELSE Some(target_line + max_distance)

\* CommentService._find_closest_valid_line
find_closest_valid_line(target_line, valid_lines, max_distance) ==
    IF valid_lines = <<>> THEN None
    ELSE ClosestLineOf(ClosestFrom(target_line, valid_lines, max_distance, 1, None))

MaxDistance == 5

\* the first file of pr_files named filename, or None
target_file_of(pr_files, filename) ==
    IF \E i \in 1..Len(pr_files) : pr_files[i].filename = filename
    THEN Some(pr_files[CHOOSE i \in 1..Len(pr_files) :
                  /\ pr_files[i].filename = filename
                  /\ \A j \in 1..(i - 1) : pr_files[j].filename # filename])
    ELSE None

InSeq(x, s) == \E i \in 1..Len(s) : s[i] = x

\* `if closest_line:` an Optional[int] that is neither None nor 0
Truthy(closest_line) ==
    IF closest_line # None /\ closest_line[1] # 0 THEN closest_line ELSE None

\* _map_line_number, lines 191-202: the line against valid_lines
line_in_valid_lines(line_number, valid_lines) ==
    IF InSeq(line_number, valid_lines) THEN Some(line_number)
    ELSE Truthy(find_closest_valid_line(line_number, valid_lines, MaxDistance))

\* _map_line_number, lines 184-202: the line against target_file
line_in_target_file(line_number, target_file) ==
    IF target_file = None \/ PatchIsFalsy(target_file[1].patch) THEN None
    ELSE line_in_valid_lines(line_number,
                             get_valid_diff_lines(target_file[1].patch))

\* CommentService._map_line_number (the line of a comment is an int)
map_line_number(comment, pr_files) ==
    IF comment.filename = "" \/ comment.line <= 0 THEN None
    ELSE line_in_target_file(comment.line,
                             target_file_of(pr_files, comment.filename))

(***************************************************************************)
(* Inputs of the prioritiser                                               *)
(***************************************************************************)
MsgPlain == <<"n","i","t">>
MsgBug == <<"a"," ","B","u","g">>
MsgError == <<"E","R","R","O","R","S">>
MsgVuln == <<"V","u","l","n","e","r","a","b","i","l","i","t","y">>

Template(t, cat, msg, fc) ==
    [type |-> t, category |-> cat, message |-> msg, file_changes |-> fc]

Templates ==
    { Template("error", "style", MsgPlain, 1),
      Template("warning", "performance", MsgPlain, 1),
      Template("warning", "style", MsgVuln, 2),
      Template("suggestion", "security", MsgPlain, 1),
      Template("suggestion", "style", MsgBug, 2),
      Template("suggestion", "style", MsgError, 1),
      Template("suggestion", "style", MsgPlain, 2) }

MaxLen == 11
MaxShort == 3

MkComment(t, line) ==
    [filename |-> IF t.file_changes = 1 THEN "a.py" ELSE "b.py",
     line |-> line, type |-> t.type, category |-> t.category,
     message |-> t.message, file_changes |-> t.file_changes]

\* lists made of two runs of equal comments; `line` numbers the entries
TwoRunLists ==
    { [i \in 1..(n1 + n2) |-> MkComment(IF i <= n1 THEN t1 ELSE t2, i)] :
        <<t1, n1, t2, n2>> \in
            { x \in Templates \X (0..MaxLen) \X Templates \X (0..MaxLen) :
                x[2] + x[4] <= MaxLen } }

\* every short list over the templates
ShortLists ==
    UNION { { [i \in 1..n |-> MkComment(f[i], i)] : f \in [1..n -> Templates] } :
            n \in 0..MaxShort }

InputLists == TwoRunLists \cup ShortLists

MaxCommentsChoices ==
    { MaxCommentsLow, MaxCommentsLow + 1, LowRiskLimit - 1, LowRiskLimit,
      LowRiskLimit + 1, HighRiskLimit, HighRiskLimit + 2, MaxCommentsHigh }

LimIdle ==
    /\ lim_comments = <<>>
    /\ lim_max = MaxCommentsLow
    /\ lim_once = <<>>
    /\ lim_twice = <<>>
    /\ lim_pc = "idle"

MlIdle ==
    /\ ml_files = <<>>
    /\ ml_comment = None
    /\ ml_result = None
    /\ ml_pc = "idle"

RvIdle ==
    /\ rv_files = <<>>
    /\ rv_comments = <<>>
    /\ rv_pc = "idle"
    /\ rv_review_comments = <<>>
    /\ rv_reviews = <<>>
    /\ rv_issue_comments = <<>>
    /\ rv_calls = <<>>
    /\ rv_result = "none"

AnIdle ==
    /\ an_files = <<>>
    /\ an_pc = "idle"
    /\ an_i = 0
    /\ an_task = <<>>
    /\ an_attempts = <<>>
    /\ an_result = <<>>
    /\ an_all_comments = <<>>

RtIdle ==
    /\ rt_path = "none"
    /\ rt_pc = "idle"
    /\ rt_attempts = 0
    /\ rt_errors = <<>>
    /\ rt_raised = None

PaIdle ==
    /\ pa_response = <<>>
    /\ pa_pc = "idle"
    /\ pa_result = <<>>

CbIdle ==
    /\ cb_state = "CLOSED"
    /\ cb_failure_count = 0
    /\ cb_last_failure_time = None
    /\ cb_now = 0
    /\ cb_pc = <<>>
    /\ cb_attempt = <<>>
    /\ cb_invocations = <<>>
    /\ cb_outcome = <<>>
    /\ cb_raised = <<>>
    /\ cb_streak = 0
    /\ cb_total = 0

RlIdle ==
    /\ rl_requests = <<>>
    /\ rl_limits = <<>>
    /\ rl_now = 0
    /\ rl_ticks = 0
    /\ rl_calls = 0
    /\ rl_last = <<>>
    /\ rl_admitted = <<>>
    /\ rl_was_reset = {}

PlIdle ==
    /\ pl_pr_files = <<>>
    /\ pl_config = [enabled |-> TRUE, skip_draft_prs |-> TRUE,
                    max_comments_per_pr |-> 20]
    /\ pl_draft = FALSE
    /\ pl_pc = "idle"
    /\ pl_limited = <<>>
    /\ pl_limit_calls = 0
    /\ pl_analysis = "none"
    /\ pl_result = "none"

InitLimit ==
    /\ RlIdle
    /\ CbIdle
    /\ PaIdle
    /\ PlIdle
    /\ MlIdle
    /\ RvIdle
    /\ AnIdle
    /\ RtIdle
    /\ lim_comments \in InputLists
    /\ lim_max \in MaxCommentsChoices
    /\ lim_once = <<>>
    /\ lim_twice = <<>>
    /\ lim_pc = "input"

LimitOnce ==
    /\ lim_pc = "input"
    /\ lim_once' = limit_comments(lim_comments, lim_max)
    /\ lim_pc' = "once"
    /\ UNCHANGED <<lim_comments, lim_max, lim_twice>>
    /\ UNCHANGED OthersOfLim

LimitTwice ==
    /\ lim_pc = "once"
    /\ lim_twice' = limit_comments(lim_once, lim_max)
    /\ lim_pc' = "twice"
    /\ UNCHANGED <<lim_comments, lim_max, lim_once>>
    /\ UNCHANGED OthersOfLim

NextLimit == LimitOnce \/ LimitTwice

SpecLimit == InitLimit /\ [][NextLimit]_vars

(***************************************************************************)
(* Inputs of line placement                                                *)
(***************************************************************************)
LnHunk1 == <<"@","@"," ","-","1",",","2"," ","+","1",",","3"," ","@","@">>    \* "@@ -1,2 +1,3 @@"
LnHunk9 == <<"@","@"," ","-","8"," ","+","9",",","2"," ","@","@"," ","x">>    \* "@@ -8 +9,2 @@ x"
LnHunk12 == <<"@","@"," ","-","1","0",",","2"," ","+","1","2"," ","@","@">>    \* "@@ -10,2 +12 @@"
LnHunk0 == <<"@","@"," ","-","1",",","2"," ","+","0",",","0"," ","@","@">>    \* "@@ -1,2 +0,0 @@"
LnHunkBad == <<"@","@"," ","x">>    \* "@@ x"
LnAdded == <<"+","a">>    \* "+a"
LnRemoved == <<"-","b">>    \* "-b"
LnContext == <<" ","c">>    \* " c"
LnPlus3 == <<"+","+","+"," ","b">>    \* "+++ b"
LnMinus3 == <<"-","-","-"," ","a">>    \* "--- a"
LnEmpty == <<>>    \* ""

\* "\ No newline at end of file"
LnNoNewline == <<"\\"," ","N","o"," ","n","e","w","l","i","n","e"," ","a","t"," ",
                 "e","n","d"," ","o","f"," ","f","i","l","e">>

CoreLines == {LnHunk1, LnHunk9, LnHunkBad, LnAdded, LnRemoved, LnContext}
AllLines == CoreLines \cup {LnHunk12, LnHunk0, LnPlus3, LnMinus3, LnEmpty}

MaxPatchLines == 4
MaxShortPatch == 2
MaxReqLine == 18

SeqsUpTo(S, n) == UNION {[1..k -> S] : k \in 0..n}

\* patches of a deleted file and of a one-hunk change, as git writes them
\* (with the end-of-file marker, or split from a text ending in a newline)
MarkedPatches ==
    { <<LnHunk0, LnRemoved, LnRemoved, LnNoNewline>>,
      <<LnHunk0, LnRemoved, LnRemoved, LnEmpty>>,
      <<LnHunk1, LnContext, LnAdded, LnContext, LnNoNewline>>,
      <<LnHunk12, LnRemoved, LnContext>> }

Patches == SeqsUpTo(CoreLines, MaxPatchLines) \cup SeqsUpTo(AllLines, MaxShortPatch)
               \cup MarkedPatches

PrFiles(patch) ==
    << [filename |-> "a.py", patch |-> patch],
       [filename |-> "b.bin", patch |-> <<>>] >>

RequestedComments ==
    { [filename |-> "a.py", line |-> l] : l \in (-1)..MaxReqLine }
    \cup { [filename |-> f, line |-> 1] : f \in {"b.bin", "zz.py", ""} }

InitPlace ==
    /\ RlIdle
    /\ CbIdle
    /\ PaIdle
    /\ PlIdle
    /\ LimIdle
    /\ RvIdle
    /\ AnIdle
    /\ RtIdle
    /\ ml_files \in {PrFiles(patch) : patch \in Patches}
    /\ ml_comment = None
    /\ ml_result = None
    /\ ml_pc = "input"

MapLine ==
    /\ ml_pc = "input"
    /\ \E c \in RequestedComments :
          /\ ml_comment' = Some(c)
          /\ ml_result' = map_line_number(c, ml_files)
    /\ ml_pc' = "done"
    /\ UNCHANGED ml_files
    /\ UNCHANGED OthersOfMl

NextPlace == MapLine

SpecPlace == InitPlace /\ [][NextPlace]_vars

(***************************************************************************)
(* Claims about line placement (checked under SpecPlace)                   *)
(***************************************************************************)
\* validLines of a patch: the new_line values > 0 of its Added and Context
\* records
ValidLines(patch) ==
    LET recs == parse_diff_lines(patch).lines
    IN  { recs[i].new_line :
            i \in { j \in 1..Len(recs) :
                      /\ recs[j].type \in {"added", "context"}
                      /\ recs[j].new_line > 0 } }

\* the patch of the file a comment names ("" when the PR has no such file)
PatchOf(pr_files, filename) ==
    IF \E i \in 1..Len(pr_files) : pr_files[i].filename = filename
    THEN pr_files[CHOOSE i \in 1..Len(pr_files) : pr_files[i].filename = filename].patch
    ELSE <<>>

Requested == ml_comment[1].line
RequestedValidLines == ValidLines(PatchOf(ml_files, ml_comment[1].filename))
Distance(v) == IF v >= Requested THEN v - Requested ELSE Requested - v

\* C13: with maxDistance = 5, resolution returns None when the requested
\* line is <= 0 or no valid line is within distance 5; otherwise a requested
\* line that is not valid is resolved to the valid line at the smallest
\* distance, the smaller line number when two are equidistant.
C13_ClosestWithinFive ==
    ml_pc = "done" =>
        /\ (Requested <= 0 \/ \A v \in RequestedValidLines : Distance(v) > 5)
              => ml_result = None
        /\ (/\ Requested > 0
            /\ Requested \notin RequestedValidLines
            /\ \E v \in RequestedValidLines : Distance(v) <= 5)
              => /\ ml_result # None
                 /\ ml_result[1] \in RequestedValidLines
                 /\ \A v \in RequestedValidLines :
                       \/ Distance(ml_result[1]) < Distance(v)
                       \/ Distance(ml_result[1]) = Distance(v) /\ ml_result[1] <= v

\* C13 witness: two valid lines are equidistant from the requested line and
\* the smaller one is returned.
C13_Witness ==
    /\ ml_pc = "done"
    /\ ml_result # None
    /\ ml_result[1] < Requested
    /\ (2 * Requested - ml_result[1]) \in RequestedValidLines

\* C14: a requested line that is a member of validLines of the file's patch
\* is returned unchanged.
C14_ValidLineUnchanged ==
    (ml_pc = "done" /\ Requested \in RequestedValidLines) =>
        ml_result = Some(Requested)

\* C14 witness: a context line of the second hunk of a patch, with other
\* valid lines next to it, is returned as requested.
C14_Witness ==
    /\ ml_pc = "done"
    /\ Requested \in RequestedValidLines
    /\ (Requested - 1) \in RequestedValidLines
    /\ Requested >= 9
    /\ \E i \in 1..Len(parse_diff_lines(ml_files[1].patch).context_lines) :
          parse_diff_lines(ml_files[1].patch).context_lines[i].new_line = Requested
    /\ ml_result = Some(Requested)

\* the records parse_diff_lines made of the patch of the resolution
ParsedRecords == parse_diff_lines(ml_files[1].patch).lines

\* C19: in every record of parse_diff_lines, new_line > 0 only if the record
\* is Added or Context and old_line > 0 only if it is Removed or Context.
C19_LineSidesByKind ==
    ml_pc = "done" =>
        \A k \in 1..Len(ParsedRecords) :
            /\ ParsedRecords[k].new_line > 0 =>
                  ParsedRecords[k].type \in {"added", "context"}
            /\ ParsedRecords[k].old_line > 0 =>
                  ParsedRecords[k].type \in {"removed", "context"}

\* patches of the input palette that are valid unified diffs: every hunk has
\* a well-formed header and as many old-side and new-side lines as it says
\* (each begins with its hunk header, so all its records come after it)
ValidUnifiedDiffs ==
    MarkedPatches
    \cup { <<LnHunk1, LnContext, LnAdded, LnContext>>,
           <<LnHunk9, LnRemoved, LnAdded, LnAdded>> }

\* C20: for every valid unified-diff patch, every Added or Context record
\* emitted after the first hunk header has new_line > 0, also a record made
\* of a line after the last diff line and in a hunk whose new-start is 0.
C20_PositiveNewLineInHunks ==
    (ml_pc = "done" /\ ml_files[1].patch \in ValidUnifiedDiffs) =>
        \A k \in 1..Len(ParsedRecords) :
            ParsedRecords[k].type \in {"added", "context"} =>
                ParsedRecords[k].new_line > 0

\* the patch whose records ParsedRecords are
ParsedPatch == ml_files[1].patch

IsHeaderLine(line) == startswith(line, <<"@","@">>)

\* the kind the first characters of a patch line give its record
KindOf(line) ==
    IF startswith(line, <<"+">>) /\ ~startswith(line, <<"+","+","+">>) THEN "added"
    ELSE IF startswith(line, <<"-">>) /\ ~startswith(line, <<"-","-","-">>)
         THEN "removed"
    ELSE "context"

\* the lines of the patch that are no hunk headers, among the first i
BodyLinesUpTo(patch, i) == { j \in 1..i : ~IsHeaderLine(patch[j]) }

\* the record of the body line i of the patch
RecordOf(patch, i) == ParsedRecords[Cardinality(BodyLinesUpTo(patch, i))]

\* C21: parse_diff_lines always returns a result: the empty result for None
\* and for the empty string; otherwise one record per line that is no hunk
\* header, each in exactly one of the added, removed and context lists; the
\* records after a hunk header that cannot be parsed count from 0.
C21_ParseNeverFails ==
    ml_pc = "done" =>
        LET d == parse_diff_lines(ParsedPatch) IN
        /\ DOMAIN d = {"lines", "added_lines", "removed_lines", "context_lines"}
        /\ (ParsedPatch = <<>> \/ ParsedPatch = << <<>> >>) => d = EmptyDiff
        /\ ~(ParsedPatch = <<>> \/ ParsedPatch = << <<>> >>) =>
              Len(d.lines) = Cardinality(BodyLinesUpTo(ParsedPatch, Len(ParsedPatch)))
        /\ Len(d.lines) =
              Len(d.added_lines) + Len(d.removed_lines) + Len(d.context_lines)
        /\ \A i \in 2..Len(ParsedPatch) :
              (ParsedPatch[i - 1] = LnHunkBad /\ ~IsHeaderLine(ParsedPatch[i])) =>
                  /\ RecordOf(ParsedPatch, i).old_line = 0
                  /\ RecordOf(ParsedPatch, i).new_line = 0

\* C21 witness: a patch with a line before any header, a header that cannot
\* be parsed and a line after it
C21_Witness ==
    /\ ml_pc = "done"
    /\ Len(ParsedPatch) >= 4
    /\ ParsedPatch[1] = LnHunk9
    /\ ParsedPatch[2] = LnAdded
    /\ ParsedPatch[3] = LnHunkBad
    /\ ParsedPatch[4] = LnContext
    /\ Len(ParsedRecords) = 2
    /\ ParsedRecords[2].new_line = 0

\* C21, second witness: the empty string is parsed to the empty result
C21_WitnessEmptyString ==
    /\ ml_pc = "done"
    /\ ParsedPatch = << <<>> >>
    /\ ParsedRecords = <<>>

\* (oldStart, newStart) as written in the hunk headers of the inputs
HeaderStarts(line) ==
    CASE line = LnHunk1 -> <<1, 1>>
      [] line = LnHunk9 -> <<8, 9>>
      [] line = LnHunk12 -> <<10, 12>>
      [] line = LnHunk0 -> <<1, 0>>
      [] OTHER -> <<0, 0>>

\* the last hunk header before line i of the patch (0: none)
LastHeaderBefore(patch, i) ==
    IF \E h \in 1..(i - 1) : IsHeaderLine(patch[h])
    THEN CHOOSE h \in 1..(i - 1) :
            /\ IsHeaderLine(patch[h])
            /\ \A g \in (h + 1)..(i - 1) : ~IsHeaderLine(patch[g])
    ELSE 0

\* lines h+1 .. i-1 of the patch whose kind is one of `kinds`
BetweenOfKind(patch, h, i, kinds) ==
    Cardinality({ j \in (h + 1)..(i - 1) : KindOf(patch[j]) \in kinds })

\* C25: a hunk header emits no record and sets the counters to (oldStart,
\* newStart); a '+' line is emitted as added and advances new_line only, a
\* '-' line as removed and advances old_line only, every other line as
\* context and advances both: the record of a line in a hunk has new_line =
\* newStart + the added and context lines before it in the hunk, and
\* old_line = oldStart + the removed and context lines before it.
C25_CountersFollowHunk ==
    (ml_pc = "done" /\ ParsedPatch # <<>> /\ ParsedPatch # << <<>> >>) =>
        /\ Len(ParsedRecords) = Cardinality(BodyLinesUpTo(ParsedPatch, Len(ParsedPatch)))
        /\ \A i \in 1..Len(ParsedPatch) :
              LET h == LastHeaderBefore(ParsedPatch, i) IN
              (~IsHeaderLine(ParsedPatch[i]) /\ h > 0) =>
                  /\ RecordOf(ParsedPatch, i).type = KindOf(ParsedPatch[i])
                  /\ RecordOf(ParsedPatch, i).new_line =
                        HeaderStarts(ParsedPatch[h])[2]
                        + BetweenOfKind(ParsedPatch, h, i, {"added", "context"})
                  /\ RecordOf(ParsedPatch, i).old_line =
                        HeaderStarts(ParsedPatch[h])[1]
                        + BetweenOfKind(ParsedPatch, h, i, {"removed", "context"})

\* C25 witness: the scenario "@@ -1,2 +1,3 @@", " c", "+a", "-b": the added
\* line has new_line 2, the removed line old_line 2
C25_Witness ==
    /\ ml_pc = "done"
    /\ ParsedPatch = <<LnHunk1, LnContext, LnAdded, LnRemoved>>
    /\ ParsedRecords[2].type = "added"
    /\ ParsedRecords[2].new_line = 2
    /\ ParsedRecords[3].type = "removed"
    /\ ParsedRecords[3].old_line = 2

(***************************************************************************)
(* Claims about _limit_comments (checked under SpecLimit)                  *)
(***************************************************************************)
\* The messages of the input palette that carry one of the keywords
\* "bug", "error", "vulnerability" in some letter case.
KeywordMessages == {MsgBug, MsgError, MsgVuln}

\* the batch classification as the specification words it
BatchIsHighRisk(comments) ==
    \E i \in 1..Len(comments) :
        \/ comments[i].type = "error"
        \/ comments[i].category = "security"
        \/ comments[i].message \in KeywordMessages

EffectiveCap(comments, maxConfigured) ==
    Min(maxConfigured, IF BatchIsHighRisk(comments) THEN 10 ELSE 5)

\* C2: _limit_comments returns at most min(maxConfigured, 10) comments, never
\* more comments than it was given, and every returned comment is one of the
\* input comments (each input comment is returned at most once).
C2_LimitBounded ==
    lim_pc # "input" =>
        /\ Len(lim_once) <= Min(lim_max, 10)
        /\ Len(lim_once) <= Len(lim_comments)
        /\ \A i \in 1..Len(lim_once) :
              \E j \in 1..Len(lim_comments) : lim_once[i] = lim_comments[j]
        /\ \A i, j \in 1..Len(lim_once) : i # j => lim_once[i] # lim_once[j]

\* C2 witness: a batch of more than 10 comments was cut to exactly 10.
C2_Witness ==
    /\ lim_pc = "once"
    /\ Len(lim_comments) > 10
    /\ Len(lim_once) = 10

\* C9 (as claimed): applying _limit_comments to its own result with the same
\* maxConfigured returns that result unchanged.
C9_Idempotent ==
    lim_pc = "twice" => lim_twice = lim_once

\* C9 (amended): the second application returns the first result unchanged
\* whenever that result has the risk class of the input or maxConfigured <= 5;
\* otherwise (a high-risk batch whose high-risk comments were all cut, with
\* maxConfigured > 5) the second application cuts again, to exactly 5.
C9_IdempotentSameRisk ==
    lim_pc = "twice" =>
        IF \/ BatchIsHighRisk(lim_once) = BatchIsHighRisk(lim_comments)
           \/ lim_max <= 5
        THEN lim_twice = lim_once
        ELSE /\ Len(lim_once) = Min(lim_max, 10)
             /\ Len(lim_twice) = 5
             /\ lim_twice # lim_once

\* C9 witness: a truncated result that kept its risk class is a fixed point.
C9_Witness ==
    /\ lim_pc = "twice"
    /\ Len(lim_once) < Len(lim_comments)
    /\ BatchIsHighRisk(lim_once)
    /\ lim_max > 5
    /\ lim_twice = lim_once

\* C10: _limit_comments returns exactly min(len(comments), effectiveCap)
\* comments, effectiveCap = min(maxConfigured, 10) for a batch holding an
\* error, a security comment or a message with "bug", "error" or
\* "vulnerability" in any letter case, and min(maxConfigured, 5) otherwise.
C10_ExactCount ==
    lim_pc # "input" =>
        Len(lim_once) = Min(Len(lim_comments), EffectiveCap(lim_comments, lim_max))

\* C10 witness: six keyword-free suggestions with maxConfigured = 50 give 5.
C10_Witness ==
    /\ lim_pc = "once"
    /\ Len(lim_comments) = 6
    /\ ~BatchIsHighRisk(lim_comments)
    /\ lim_max = 50
    /\ Len(lim_once) = 5

\* the priority key as the specification words it
SeverityRank(t) ==
    IF t = "error" THEN 0 ELSE IF t = "warning" THEN 1
    ELSE IF t = "suggestion" THEN 2 ELSE 3

ClaimKey(c) ==
    << SeverityRank(c.type),
       IF c.category = "security" THEN 0 ELSE 1,
       IF c.message = MsgBug THEN 0 ELSE 1,
       IF c.message = MsgError THEN 0 ELSE 1,
       -c.file_changes >>

RECURSIVE LexLess(_, _)
LexLess(a, b) ==
    /\ a # <<>>
    /\ \/ Head(a) < Head(b)
       \/ Head(a) = Head(b) /\ LexLess(Tail(a), Tail(b))

\* comment a comes before comment b in the stable ascending sort of the input
\* (the `line` of an input comment is its position in the input)
EntryBefore(a, b) ==
    \/ LexLess(ClaimKey(a), ClaimKey(b))
    \/ ClaimKey(a) = ClaimKey(b) /\ a.line < b.line

Before(comments, i, j) == EntryBefore(comments[i], comments[j])

Kept(c) == \E p \in 1..Len(lim_once) : lim_once[p] = c

Truncating == lim_pc # "input" /\ Len(lim_comments) > EffectiveCap(lim_comments, lim_max)

\* C11: when more comments than effectiveCap are given, the result is the
\* first effectiveCap entries of the stable ascending sort by (severityRank,
\* not security, lacks 'bug', lacks 'error', -file_changes): the result is in
\* that order, every dropped comment comes after every kept one in that order
\* (so no dropped comment has a strictly smaller key than a kept one), and
\* comments of equal key keep their input order.
C11_StableSortPrefix ==
    Truncating =>
        /\ Len(lim_once) = EffectiveCap(lim_comments, lim_max)
        /\ \A p \in 1..Len(lim_once) :
              \E i \in 1..Len(lim_comments) : lim_once[p] = lim_comments[i]
        /\ \A p \in 1..(Len(lim_once) - 1) :
              EntryBefore(lim_once[p], lim_once[p + 1])
        /\ \A i \in 1..Len(lim_comments) :
              ~Kept(lim_comments[i]) =>
                  \A p \in 1..Len(lim_once) :
                      /\ EntryBefore(lim_once[p], lim_comments[i])
                      /\ ~LexLess(ClaimKey(lim_comments[i]), ClaimKey(lim_once[p]))

\* C11 witness: a later comment was kept while an earlier one was dropped,
\* and two kept comments have the same key.
C11_Witness ==
    /\ Truncating
    /\ Len(lim_once) >= 2
    /\ ClaimKey(lim_once[1]) = ClaimKey(lim_once[2])
    /\ ~Kept(lim_comments[1])
    /\ lim_once[1].line > 1

\* C12: when no more comments than effectiveCap are given, the result is the
\* input: same comments, same order, nothing modified.
C12_UnchangedWithinCap ==
    (lim_pc # "input" /\ Len(lim_comments) <= EffectiveCap(lim_comments, lim_max)) =>
        lim_once = lim_comments

\* C12 witness: a list that is not in priority order and within the cap is
\* returned as it was given.
C12_Witness ==
    /\ lim_pc = "once"
    /\ Len(lim_comments) >= 2
    /\ Len(lim_comments) <= EffectiveCap(lim_comments, lim_max)
    /\ Before(lim_comments, 2, 1)
    /\ lim_once = lim_comments

(***************************************************************************)
(* CommentService: building and posting the review                         *)
(***************************************************************************)
\* CommentService._is_valid_comment: every required field present and truthy
is_valid_comment(comment) ==
    /\ comment.filename # ""
    /\ comment.line # 0
    /\ comment.type # ""
    /\ comment.message # <<>>

\* CommentService._format_comment_body: the parts the text is made of
format_comment_body(comment) ==
    [type |-> comment.type, category |-> comment.category,
     message |-> comment.message]

\* mutant: the entry carries the line of the candidate, not the mapped line
with_review_comment_original_line(review_comments, comment, github_line) ==
    IF github_line = None THEN review_comments
    ELSE Append(review_comments,
                [path |-> comment.filename,
                 line |-> comment.line,
                 body |-> format_comment_body(comment)])

\* _prepare_review_comments, lines 97-110: one comment with its mapped line
with_review_comment(review_comments, comment, github_line) ==
    IF github_line = None THEN review_comments
    ELSE Append(review_comments,
                [path |-> comment.filename,
                 line |-> github_line[1],
                 body |-> format_comment_body(comment)])

\* the loop of _prepare_review_comments over comments[i..]
RECURSIVE PrepareFrom(_, _, _, _)
PrepareFrom(comments, pr_files, i, review_comments) ==
    IF i > Len(comments) THEN review_comments
    ELSE PrepareFrom(comments, pr_files, i + 1,
             IF ~is_valid_comment(comments[i]) THEN review_comments
             ELSE with_review_comment(review_comments, comments[i],
                      map_line_number(comments[i], pr_files)))

\* CommentService._prepare_review_comments
prepare_review_comments(comments, pr_files) ==
    PrepareFrom(comments, pr_files, 1, <<>>)

\* OpenAIService.generate_review_summary (never raises): the counts it reports
generate_review_summary(comments) ==
    [total_issues |-> Len(comments),
     errors |-> Cardinality({i \in 1..Len(comments) : comments[i].type = "error"})]

\* the keys of files_comments in insertion order
RECURSIVE FilenamesInOrder(_, _, _)
FilenamesInOrder(comments, i, seen) ==
    IF i > Len(comments) THEN seen
    ELSE FilenamesInOrder(comments, i + 1,
             IF InSeq(comments[i].filename, seen) THEN seen
             ELSE Append(seen, comments[i].filename))

\* one numbered finding of the fallback text
FallbackItem(i, comment) ==
    [index |-> i,
     type |-> comment.type,
     line_info |-> IF comment.line # 0 THEN Some(comment.line) ELSE None,
     category |-> comment.category,
     message |-> comment.message]

\* mutant: files_comments[filename] is overwritten instead of appended to
create_fallback_comment_overwrite(comments, review_summary) ==
    LET names == FilenamesInOrder(comments, 1, <<>>)
        last(f) == comments[CHOOSE i \in 1..Len(comments) :
                       /\ comments[i].filename = f
                       /\ \A j \in (i + 1)..Len(comments) : comments[j].filename # f]
    IN  [summary |-> review_summary,
         findings |-> [g \in 1..Len(names) |->
                          [filename |-> names[g],
                           items |-> <<FallbackItem(1, last(names[g]))>>]],
         footer |-> "unable to place inline comments"]

\* CommentService._create_fallback_comment: the parts the text is made of
create_fallback_comment(comments, review_summary) ==
    LET names == FilenamesInOrder(comments, 1, <<>>)
        of(f) == SelectSeq(comments, LAMBDA c : c.filename = f)
    IN  [summary |-> review_summary,
         findings |-> [g \in 1..Len(names) |->
                          [filename |-> names[g],
                           items |-> [i \in 1..Len(of(names[g])) |->
                                         FallbackItem(i, of(names[g])[i])]]],
         footer |-> "unable to place inline comments"]

\* GitHubService.create_pr_review: the comments handed to create_review
github_review_comments(comments) ==
    SelectSeq(comments, LAMBDA c : c.line # 0 /\ c.path # "")

\* mutant: an empty `comments` is handled like comments without a valid line
after_prepare_no_skip(comments, review_comments) ==
    IF review_comments = <<>> THEN "post_fallback" ELSE "create_review"

\* post_pr_review, lines 28-44: up to the first posting call
after_prepare(comments, review_comments) ==
    IF comments = <<>> THEN "returned"
    ELSE IF review_comments = <<>> THEN "post_fallback"
         ELSE "create_review"

\* mutant: the fallback of the except branch also runs after a review was posted
after_create_review_always_fallback(ok) == "handler"

\* post_pr_review, lines 47-76: after create_pr_review returned or raised
after_create_review(ok) == IF ok THEN "returned" ELSE "handler"

\* post_pr_review, lines 44 and 68-76: after post_simple_comment of the
\* no-inline-comment branch returned or raised
after_post_fallback(ok) == IF ok THEN "returned" ELSE "handler"

\* post_pr_review, lines 71-76: after post_simple_comment of the except branch
after_handler(ok) == IF ok THEN "returned" ELSE "raised"

PostPrReviewStart ==
    /\ rv_pc = "start"
    /\ rv_review_comments' =
          IF rv_comments = <<>> THEN <<>>
          ELSE prepare_review_comments(rv_comments, rv_files)
    /\ rv_pc' = after_prepare(rv_comments, rv_review_comments')
    /\ rv_result' = IF rv_comments = <<>> THEN "skipped" ELSE rv_result
    /\ UNCHANGED <<rv_files, rv_comments, rv_reviews, rv_issue_comments, rv_calls>>
    /\ UNCHANGED OthersOfRv

\* github_service.create_pr_review(...) returns or raises GitHubAPIException
CreatePrReview ==
    /\ rv_pc = "create_review"
    /\ \E ok \in BOOLEAN :
          /\ rv_calls' = Append(rv_calls, <<"create_pr_review", ok>>)
          /\ rv_reviews' =
                IF ok
                THEN Append(rv_reviews,
                        [body |-> generate_review_summary(rv_comments),
                         comments |-> github_review_comments(rv_review_comments)])
                ELSE rv_reviews
          /\ rv_pc' = after_create_review(ok)
          /\ rv_result' = IF rv_pc' = "returned" THEN "posted" ELSE rv_result
    /\ UNCHANGED <<rv_files, rv_comments, rv_issue_comments, rv_review_comments>>
    /\ UNCHANGED OthersOfRv

\* post_simple_comment(pull_request, fallback_message) of line 44
PostFallback ==
    /\ rv_pc = "post_fallback"
    /\ \E ok \in BOOLEAN :
          /\ rv_calls' = Append(rv_calls, <<"create_issue_comment", ok>>)
          /\ rv_issue_comments' =
                IF ok
                THEN Append(rv_issue_comments,
                        create_fallback_comment(rv_comments,
                            generate_review_summary(rv_comments)))
                ELSE rv_issue_comments
          /\ rv_pc' = after_post_fallback(ok)
          /\ rv_result' = IF rv_pc' = "returned" THEN "posted" ELSE rv_result
    /\ UNCHANGED <<rv_files, rv_comments, rv_reviews, rv_review_comments>>
    /\ UNCHANGED OthersOfRv

\* the except branch: post_simple_comment(pull_request, fallback_message) of line 74
HandlerFallback ==
    /\ rv_pc = "handler"
    /\ \E ok \in BOOLEAN :
          /\ rv_calls' = Append(rv_calls, <<"create_issue_comment", ok>>)
          /\ rv_issue_comments' =
                IF ok
                THEN Append(rv_issue_comments,
                        create_fallback_comment(rv_comments,
                            generate_review_summary(rv_comments)))
                ELSE rv_issue_comments
          /\ rv_pc' = after_handler(ok)
          /\ rv_result' = IF ok THEN "posted" ELSE "GitHubAPIException"
    /\ UNCHANGED <<rv_files, rv_comments, rv_reviews, rv_review_comments>>
    /\ UNCHANGED OthersOfRv

(***************************************************************************)
(* Inputs of post_pr_review                                                *)
(***************************************************************************)
\* the patch of the specification's scenario: valid lines 1, 2, 3
PatchGood == <<LnHunk1, LnContext, LnAdded, LnRemoved, LnContext>>
\* no hunk header: the line counters start at 0
PatchNoHunk == <<LnAdded, LnContext>>
\* one added line, at 9
PatchFar == <<LnHunk9, LnAdded>>

ReviewPatches == {PatchGood, PatchNoHunk, PatchFar}

Candidate(f, l, t, cat, msg) ==
    [filename |-> f, line |-> l, type |-> t, category |-> cat, message |-> msg,
     file_changes |-> 1]

Candidates ==
    { Candidate("a.py", 2, "warning", "style", MsgPlain),
      Candidate("a.py", 50, "suggestion", "style", MsgVuln),
      Candidate("a.py", 0, "error", "security", MsgError),
      Candidate("a.py", -1, "warning", "style", MsgPlain),
      Candidate("b.py", 3, "error", "security", MsgBug),
      Candidate("b.py", 5, "warning", "performance", MsgPlain),
      Candidate("b.py", 2, "", "style", MsgPlain),
      Candidate("b.py", 7, "suggestion", "testing", <<>>) }

MaxCandidates == 3

InitReview ==
    /\ RlIdle
    /\ CbIdle
    /\ PaIdle
    /\ PlIdle
    /\ LimIdle
    /\ MlIdle
    /\ AnIdle
    /\ RtIdle
    /\ rv_files \in { << [filename |-> "a.py", patch |-> pa],
                         [filename |-> "b.py", patch |-> pb] >> :
                      <<pa, pb>> \in ReviewPatches \X ReviewPatches }
    /\ rv_comments \in SeqsUpTo(Candidates, MaxCandidates)
    /\ rv_pc = "start"
    /\ rv_review_comments = <<>>
    /\ rv_reviews = <<>>
    /\ rv_issue_comments = <<>>
    /\ rv_calls = <<>>
    /\ rv_result = "none"

NextReview ==
    \/ PostPrReviewStart
    \/ CreatePrReview
    \/ PostFallback
    \/ HandlerFallback

SpecReview == InitReview /\ [][NextReview]_vars

(***************************************************************************)
(* Claims about the review outcome (checked under SpecReview)              *)
(***************************************************************************)
RvFinished == rv_pc \in {"returned", "raised"}
Outcomes == Len(rv_reviews) + Len(rv_issue_comments)

\* a candidate that a valid diff line can take
Placeable(c, pr_files) ==
    /\ is_valid_comment(c)
    /\ \E v \in ValidLines(PatchOf(pr_files, c.filename)) :
          Abs(v - c.line) <= 5
    /\ c.line > 0

NonePlaceable ==
    /\ rv_comments # <<>>
    /\ \A i \in 1..Len(rv_comments) : ~Placeable(rv_comments[i], rv_files)

\* C3 (as claimed): a run that reaches posting with a non-empty comment list
\* produces exactly one outcome, whatever posting calls succeed or fail.
C3_ExactlyOneOutcome ==
    (RvFinished /\ rv_comments # <<>>) => Outcomes = 1

\* C3 (amended): at most one outcome is ever produced (never a review and a
\* fallback comment, never two of a kind); a finished run with a non-empty
\* comment list has exactly one outcome when its last posting call succeeded
\* (post_pr_review returns), and none when it failed (post_pr_review raises
\* GitHubAPIException after create_issue_comment of the except branch failed).
C3_AtMostOneOutcome ==
    /\ Outcomes <= 1
    /\ (RvFinished /\ rv_comments # <<>>) =>
          /\ rv_calls # <<>>
          /\ (rv_pc = "returned") = rv_calls[Len(rv_calls)][2]
          /\ rv_pc = "returned" => Outcomes = 1
          /\ rv_pc = "raised" =>
                /\ Outcomes = 0
                /\ Len(rv_calls) >= 2
                /\ rv_calls[Len(rv_calls)] = <<"create_issue_comment", FALSE>>

\* C3 witness: create_pr_review failed and the fallback comment of the except
\* branch is the one outcome.
C3_Witness ==
    /\ rv_pc = "returned"
    /\ rv_calls = << <<"create_pr_review", FALSE>>, <<"create_issue_comment", TRUE>> >>
    /\ Len(rv_issue_comments) = 1
    /\ rv_reviews = <<>>

\* the fallback comment lists candidate c, under its file, with its message
\* and the line number `shown`
ListedWith(fallback, c, shown) ==
    \E g \in 1..Len(fallback.findings) :
        /\ fallback.findings[g].filename = c.filename
        /\ \E k \in 1..Len(fallback.findings[g].items) :
              /\ fallback.findings[g].items[k].message = c.message
              /\ fallback.findings[g].items[k].type = c.type
              /\ fallback.findings[g].items[k].line_info = shown

RECURSIVE FindingsUpTo(_, _)
FindingsUpTo(fallback, g) ==
    IF g = 0 THEN 0
    ELSE Len(fallback.findings[g].items) + FindingsUpTo(fallback, g - 1)

FindingsCount(fallback) == FindingsUpTo(fallback, Len(fallback.findings))

\* the files of the findings are pairwise different (one group per filename)
GroupedByFilename(fallback) ==
    \A g, h \in 1..Len(fallback.findings) :
        g # h => fallback.findings[g].filename # fallback.findings[h].filename

\* C4 (as claimed): with candidates of which none can be placed, the outcome
\* is a single fallback comment listing every candidate (message and original
\* line number) grouped by filename, and no structured review is posted.
C4_FallbackListsEveryLine ==
    (RvFinished /\ NonePlaceable) =>
        /\ rv_reviews = <<>>
        /\ Len(rv_issue_comments) = 1
        /\ GroupedByFilename(rv_issue_comments[1])
        /\ \A i \in 1..Len(rv_comments) :
              ListedWith(rv_issue_comments[1], rv_comments[i],
                         Some(rv_comments[i].line))

\* C4 (amended): with candidates of which none can be placed, no structured
\* review is posted and create_pr_review is never called; when post_pr_review
\* returns, the outcome is a single fallback comment that lists every
\* candidate once, grouped by filename, with its message and with its
\* original line number unless that number is 0 (such a candidate is listed
\* without a line number); when both create_issue_comment attempts fail,
\* post_pr_review raises and nothing is posted.
C4_FallbackListsAll ==
    NonePlaceable =>
        /\ rv_reviews = <<>>
        /\ \A k \in 1..Len(rv_calls) : rv_calls[k][1] = "create_issue_comment"
        /\ rv_pc \notin {"create_review"}
        /\ rv_pc = "returned" =>
              /\ Len(rv_issue_comments) = 1
              /\ GroupedByFilename(rv_issue_comments[1])
              /\ FindingsCount(rv_issue_comments[1]) = Len(rv_comments)
              /\ \A i \in 1..Len(rv_comments) :
                    ListedWith(rv_issue_comments[1], rv_comments[i],
                               IF rv_comments[i].line # 0
                               THEN Some(rv_comments[i].line) ELSE None)
        /\ rv_pc = "raised" =>
              /\ rv_issue_comments = <<>>
              /\ rv_calls = << <<"create_issue_comment", FALSE>>,
                               <<"create_issue_comment", FALSE>> >>

\* C4 witness: three unplaceable candidates of two files, one of them with
\* line 0, are listed in the one fallback comment.
C4_Witness ==
    /\ rv_pc = "returned"
    /\ NonePlaceable
    /\ Len(rv_comments) = 3
    /\ Len(rv_issue_comments) = 1
    /\ Len(rv_issue_comments[1].findings) = 2
    /\ \E i \in 1..3 : rv_comments[i].line = 0
    /\ \E i \in 1..3 : rv_comments[i].line = 50

\* C16: when no candidate comments are supplied, post_pr_review ends with the
\* "no issues" outcome (skipped) and nothing is posted to the pull request:
\* no structured review, no fallback comment, no posting call at all.
C16_NothingPostedWithoutCandidates ==
    rv_comments = <<>> =>
        /\ rv_reviews = <<>>
        /\ rv_issue_comments = <<>>
        /\ rv_calls = <<>>
        /\ rv_pc \in {"idle", "start", "returned"}
        /\ rv_pc = "returned" => rv_result = "skipped"

C16_Witness ==
    /\ rv_comments = <<>>
    /\ rv_pc = "returned"
    /\ rv_result = "skipped"

(***************************************************************************)
(* PRAnalyzerService._analyze_files: files are analysed in batches; every  *)
(* step of the model is the code between two awaits of one coroutine.      *)
(***************************************************************************)
\* pr_analyzer.py: batch_size = 3
batch_size == 3

\* openai_service.py: @retry(stop=stop_after_attempt(3), ...)
stop_after_attempt == 3

\* a comment as _parse_ai_response builds it from the answer of the model
Parsed(f, l, t, cat, msg) ==
    [filename |-> f, line |-> l, type |-> t, category |-> cat, message |-> msg]

\* the parsed answers an analysis can end with
Responses ==
    { <<>>,
      << Parsed("x", 2, "warning", "style", MsgPlain) >>,
      << Parsed("x", 3, "error", "security", MsgBug),
         Parsed("x", 50, "suggestion", "testing", MsgPlain) >> }

FileNames == <<"a.py", "b.py", "c.py", "d.py", "e.py", "f.py", "g.py">>

MaxFiles == 5

\* an entry of files_to_analyze
FileData(k, patch) == [filename |-> FileNames[k], patch |-> patch, changes |-> k]

\* what a task has returned or raised, as asyncio.gather reports it
NoResult == [kind |-> "none", value |-> <<>>]
ListResult(comments) == [kind |-> "list", value |-> comments]
ExceptionResult == [kind |-> "FileProcessingException", value |-> <<>>]

\* `isinstance(result, Exception)`
is_exception(result) == result.kind = "FileProcessingException"

\* the indices of files_to_analyze[i:i + batch_size]
BatchOf(i, files) == (i + 1)..Min(i + batch_size, Len(files))

\* the coroutines of lines 171-174, handed to asyncio.gather
CreateTasks(task, batch) ==
    [f \in DOMAIN task |-> IF f \in batch THEN "created" ELSE task[f]]

\* mutant: the gather returns as soon as one task of the batch has finished
gather_complete_first(task, batch) ==
    \E f \in batch : task[f] \in {"done", "failed"}

\* asyncio.gather(*tasks, return_exceptions=True) returns once every task of
\* the batch has returned or raised
gather_complete(task, batch) ==
    \A f \in batch : task[f] \in {"done", "failed"}

\* mutant: the loop over batch_results stops at the first exception
RECURSIVE extend_results_break(_, _, _)
extend_results_break(all_comments, batch_results, k) ==
    IF k > Len(batch_results) THEN all_comments
    ELSE IF is_exception(batch_results[k]) THEN all_comments
    ELSE extend_results_break(
             IF batch_results[k].kind = "list"
             THEN all_comments \o batch_results[k].value ELSE all_comments,
             batch_results, k + 1)

\* _analyze_files, lines 180-186: the loop over batch_results[k..]
RECURSIVE extend_results(_, _, _)
extend_results(all_comments, batch_results, k) ==
    IF k > Len(batch_results) THEN all_comments
    ELSE IF is_exception(batch_results[k])
         THEN extend_results(all_comments, batch_results, k + 1)
    ELSE extend_results(
             IF batch_results[k].kind = "list"
             THEN all_comments \o batch_results[k].value ELSE all_comments,
             batch_results, k + 1)

\* mutant: the results of the batch come last task first
batch_results_of_reversed(result, i, files) ==
    [k \in 1..Cardinality(BatchOf(i, files)) |->
        result[i + Cardinality(BatchOf(i, files)) + 1 - k]]

\* batch_results: the results of the batch in the order of its tasks
batch_results_of(result, i, files) ==
    [k \in 1..Cardinality(BatchOf(i, files)) |-> result[i + k]]

\* _analyze_single_file, lines 217-220: filename and file_changes are set
add_metadata(comments, file_data) ==
    [k \in 1..Len(comments) |->
        [filename |-> file_data.filename,
         line |-> comments[k].line,
         type |-> comments[k].type,
         category |-> comments[k].category,
         message |-> comments[k].message,
         file_changes |-> file_data.changes]]

\* tenacity after a failed attempt of analyze_code_changes: any exception is
\* retried until stop_after_attempt; then RetryError is raised, which
\* _analyze_single_file turns into FileProcessingException
task_after_failure(attempt_number) ==
    IF attempt_number >= stop_after_attempt THEN "failed" ELSE "waiting"

\* _analyze_files, lines 163-177: up to the first gather
AnalyzeFilesStart ==
    /\ an_pc = "start"
    /\ an_i' = 0
    /\ an_all_comments' = <<>>
    /\ IF Len(an_files) = 0
       THEN /\ an_pc' = "returned"
            /\ an_task' = an_task
       ELSE /\ an_pc' = "gather"
            /\ an_task' = CreateTasks(an_task, BatchOf(0, an_files))
    /\ UNCHANGED <<an_files, an_attempts, an_result>>
    /\ UNCHANGED OthersOfAn

\* _analyze_single_file of one file, up to its first await: without a patch
\* analyze_code_changes returns [] and no request is made
TaskStart(f) ==
    /\ an_task[f] = "created"
    /\ IF PatchIsFalsy(an_files[f].patch)
       THEN /\ an_task' = [an_task EXCEPT ![f] = "done"]
            /\ an_attempts' = an_attempts
            /\ an_result' = [an_result EXCEPT
                                ![f] = ListResult(add_metadata(<<>>, an_files[f]))]
       ELSE /\ an_task' = [an_task EXCEPT ![f] = "running"]
            /\ an_attempts' = [an_attempts EXCEPT ![f] = 1]
            /\ an_result' = an_result
    /\ UNCHANGED <<an_files, an_pc, an_i, an_all_comments>>
    /\ UNCHANGED OthersOfAn

\* the completion request of file f is answered; the parsed comments get
\* their metadata and the task returns them
AttemptOK(f) ==
    /\ an_task[f] = "running"
    /\ \E comments \in Responses :
          an_result' = [an_result EXCEPT
                           ![f] = ListResult(add_metadata(comments, an_files[f]))]
    /\ an_task' = [an_task EXCEPT ![f] = "done"]
    /\ an_attempts' = [an_attempts EXCEPT ![f] = 0]
    /\ UNCHANGED <<an_files, an_pc, an_i, an_all_comments>>
    /\ UNCHANGED OthersOfAn

\* the completion request of file f raises
AttemptFail(f) ==
    /\ an_task[f] = "running"
    /\ an_task' = [an_task EXCEPT ![f] = task_after_failure(an_attempts[f])]
    /\ an_result' = [an_result EXCEPT
                        ![f] = IF an_task'[f] = "failed"
                               THEN ExceptionResult ELSE an_result[f]]
    /\ an_attempts' = [an_attempts EXCEPT
                          ![f] = IF an_task'[f] = "failed" THEN 0 ELSE an_attempts[f]]
    /\ UNCHANGED <<an_files, an_pc, an_i, an_all_comments>>
    /\ UNCHANGED OthersOfAn

\* the wait of tenacity is over: the next attempt of analyze_code_changes
RetryAttempt(f) ==
    /\ an_task[f] = "waiting"
    /\ an_task' = [an_task EXCEPT ![f] = "running"]
    /\ an_attempts' = [an_attempts EXCEPT ![f] = an_attempts[f] + 1]
    /\ UNCHANGED <<an_files, an_pc, an_i, an_result, an_all_comments>>
    /\ UNCHANGED OthersOfAn

\* _analyze_files, lines 177-192: the gather returns, the results are
\* processed; then the sleep between batches or the return
GatherDone ==
    /\ an_pc = "gather"
    /\ gather_complete(an_task, BatchOf(an_i, an_files))
    /\ an_all_comments' =
          extend_results(an_all_comments,
                         batch_results_of(an_result, an_i, an_files), 1)
    /\ an_pc' = IF an_i + batch_size < Len(an_files) THEN "sleep" ELSE "returned"
    /\ UNCHANGED <<an_files, an_i, an_task, an_attempts, an_result>>
    /\ UNCHANGED OthersOfAn

\* asyncio.sleep(1) is over: the next iteration, up to its gather
SleepDone ==
    /\ an_pc = "sleep"
    /\ an_i' = an_i + batch_size
    /\ an_task' = CreateTasks(an_task, BatchOf(an_i', an_files))
    /\ an_pc' = "gather"
    /\ UNCHANGED <<an_files, an_attempts, an_result, an_all_comments>>
    /\ UNCHANGED OthersOfAn

InitAnalyze ==
    /\ RlIdle
    /\ CbIdle
    /\ PaIdle
    /\ PlIdle
    /\ LimIdle
    /\ MlIdle
    /\ RvIdle
    /\ RtIdle
    /\ an_files \in UNION { { [k \in 1..n |-> FileData(k, patches[k])] :
                               patches \in [1..n -> {PatchGood, <<>>}] } :
                            n \in 0..MaxFiles }
    /\ an_pc = "start"
    /\ an_i = 0
    /\ an_task = [f \in 1..Len(an_files) |-> "pending"]
    /\ an_attempts = [f \in 1..Len(an_files) |-> 0]
    /\ an_result = [f \in 1..Len(an_files) |-> NoResult]
    /\ an_all_comments = <<>>

NextAnalyze ==
    \/ AnalyzeFilesStart
    \/ \E f \in DOMAIN an_task : TaskStart(f)
    \/ \E f \in DOMAIN an_task : AttemptOK(f)
    \/ \E f \in DOMAIN an_task : AttemptFail(f)
    \/ \E f \in DOMAIN an_task : RetryAttempt(f)
    \/ GatherDone
    \/ SleepDone

SpecAnalyze == InitAnalyze /\ [][NextAnalyze]_vars

(***************************************************************************)
(* Claims about _analyze_files (checked under SpecAnalyze)                 *)
(***************************************************************************)
Files == DOMAIN an_task
Finished(f) == an_task[f] \in {"done", "failed"}
InFlight == {f \in Files : an_task[f] \in {"running", "waiting"}}
Started(f) == an_task[f] \notin {"pending", "created"}
BatchIndex(f) == (f - 1) \div 3

\* the comments of the files 1..n that did not fail, in the order of the files
RECURSIVE ContributionsUpTo(_)
ContributionsUpTo(n) ==
    IF n = 0 THEN <<>>
    ELSE ContributionsUpTo(n - 1)
             \o (IF an_task[n] = "done" THEN an_result[n].value ELSE <<>>)

\* C5: when _analyze_files returns, every file has been analysed to its end,
\* a file whose analysis raised contributes no comment, and the comments of
\* every other file (same batch or later batch) are all in the result, in
\* the order of the files; the run always ends by returning, never aborted.
C5_FailureIsolated ==
    /\ an_pc = "returned" =>
          /\ \A f \in Files : Finished(f)
          /\ an_all_comments = ContributionsUpTo(Len(an_files))
          /\ \A f \in Files : an_task[f] = "failed" =>
                \A k \in 1..Len(an_all_comments) :
                    an_all_comments[k].filename # an_files[f].filename
    /\ (an_pc # "idle" /\ ~ENABLED NextAnalyze) => an_pc = "returned"

\* C5 witness: the analysis of the second file of the first batch raised;
\* its batch neighbours and a file of the next batch contributed.
C5_Witness ==
    /\ an_pc = "returned"
    /\ Len(an_files) = 5
    /\ an_task[2] = "failed"
    /\ an_task[1] = "done" /\ Len(an_result[1].value) = 1
    /\ an_task[3] = "done" /\ Len(an_result[3].value) = 2
    /\ an_task[4] = "done" /\ Len(an_result[4].value) = 2
    /\ an_task[5] = "failed"
    /\ Len(an_all_comments) = 5

\* C6: at every moment at most 3 analyses are in flight (running or waiting
\* for a retry), and a file of a later batch has not started while a file
\* of an earlier batch is unfinished.
C6_BatchesSequential ==
    /\ Cardinality(InFlight) <= 3
    /\ \A f, g \in Files :
          (BatchIndex(g) < BatchIndex(f) /\ Started(f)) => Finished(g)

\* C6 witness: three analyses of the first batch are in flight, one of them
\* waiting for its third attempt, while the second batch has not started.
C6_Witness ==
    /\ Len(an_files) = 5
    /\ Cardinality(InFlight) = 3
    /\ an_task[1] = "waiting" /\ an_attempts[1] = 2
    /\ an_task[2] = "running" /\ an_attempts[2] = 3
    /\ an_task[4] = "pending"

\* C6 witness of the second batch: its files run, with retries, after every
\* file of the first batch has finished.
C6_WitnessSecondBatch ==
    /\ Len(an_files) = 5
    /\ an_i = 3
    /\ an_task[4] = "running" /\ an_attempts[4] = 3
    /\ an_task[5] = "waiting"
    /\ an_task[1] = "failed"

\* the position in files_to_analyze of the file a comment names
FilePos(c) == CHOOSE f \in Files : an_files[f].filename = c.filename

\* the comments of the result that name the file f
CommentsOfFile(f) ==
    SelectSeq(an_all_comments, LAMBDA c : c.filename = an_files[f].filename)

\* the comments are, in order, the answer r with the metadata of the file f
AnswerWithMetadata(comments, r, f) ==
    /\ Len(comments) = Len(r)
    /\ \A j \in 1..Len(r) :
          /\ j <= Len(comments)
          /\ comments[j].line = r[j].line
          /\ comments[j].type = r[j].type
          /\ comments[j].category = r[j].category
          /\ comments[j].message = r[j].message
          /\ comments[j].filename = an_files[f].filename
          /\ comments[j].file_changes = an_files[f].changes

\* C29: the list _analyze_files returns is ordered by the position of each
\* comment's file in files_to_analyze and within a file by the order of the
\* answer, whatever the order in which the analyses of a batch completed;
\* every comment carries the filename and the change count of its file.
C29_AggregateInFileOrder ==
    an_pc = "returned" =>
        /\ \A k \in 1..Len(an_all_comments) :
              \E f \in Files :
                 /\ an_task[f] = "done"
                 /\ an_all_comments[k].filename = an_files[f].filename
                 /\ an_all_comments[k].file_changes = an_files[f].changes
        /\ \A k \in 1..(Len(an_all_comments) - 1) :
              FilePos(an_all_comments[k]) <= FilePos(an_all_comments[k + 1])
        /\ \A f \in Files :
              an_task[f] = "done" =>
                 /\ CommentsOfFile(f) = an_result[f].value
                 /\ \E r \in Responses : AnswerWithMetadata(CommentsOfFile(f), r, f)

\* C29 witness: three files of the first batch and one of the second gave
\* comments, two of them two comments each
C29_Witness ==
    /\ an_pc = "returned"
    /\ Len(an_files) = 5
    /\ Len(an_all_comments) = 6
    /\ Len(an_result[1].value) = 2
    /\ Len(an_result[2].value) = 1
    /\ Len(an_result[3].value) = 1
    /\ Len(an_result[5].value) = 2
    /\ an_all_comments[1].line = 3
    /\ an_all_comments[2].line = 50
    /\ an_all_comments[6].filename = "e.py"

(***************************************************************************)
(* The retry paths: retry_on_api_error, RetryableOperation.execute and the *)
(* @retry of OpenAIService.analyze_code_changes.  One invocation of one    *)
(* path; every upstream call returns or raises one of the exceptions.      *)
(***************************************************************************)
\* RetryableOperation.__init__: the default of retryable_exceptions, also the
\* tuple of retry_if_exception_type in retry_on_api_error
retryable_exceptions ==
    {"GitHubAPIException", "OpenAIAPIException", "ConnectionError", "TimeoutError"}

\* RetryableOperation.__init__: max_attempts: int = 3
max_attempts == 3

\* what the upstream call of a path can raise: the operation handed to
\* RetryableOperation raises exceptions of the application, the completion
\* request of analyze_code_changes those of the OpenAI client
UpstreamErrors(path) ==
    IF path = "op"
    THEN retryable_exceptions \cup {"RateLimitException", "ValueError"}
    ELSE {"RateLimitError", "APIConnectionError", "AuthenticationError"}

\* an exception that reached the caller, with the exception it wraps
Raised(type, cause) == [type |-> type, cause |-> cause]

\* mutant: every exception is retried until the attempts are used up
execute_after_failure_retry_all(e, calls) ==
    IF calls - 1 = max_attempts - 1 THEN "raised" ELSE "waiting"

\* RetryableOperation.execute, lines 148-172, after call number `calls` raised
\* e (the loop variable attempt is calls - 1)
execute_after_failure(e, calls) ==
    IF e \in retryable_exceptions
    THEN IF calls - 1 = max_attempts - 1 THEN "raised" ELSE "waiting"
    ELSE "raised"

\* RetryableOperation.execute: `raise` of the non-retryable branch and
\* `raise last_exception`
execute_raises(e) == Raised(e, "none")

\* analyze_code_changes after call number `calls` raised e: line 96 wraps every
\* exception as OpenAIAPIException, and @retry without a retry= argument
\* retries on any exception until stop_after_attempt(3)
analyze_after_failure(e, calls) ==
    IF calls >= stop_after_attempt THEN "raised" ELSE "waiting"

\* @retry without reraise=True: RetryError, holding the last
\* OpenAIAPIException, is what the caller gets
analyze_raises(e) == Raised("RetryError", "OpenAIAPIException")

after_failure(path, e, calls) ==
    IF path = "op" THEN execute_after_failure(e, calls)
    ELSE analyze_after_failure(e, calls)

raises(path, e) ==
    IF path = "op" THEN execute_raises(e) ELSE analyze_raises(e)

\* retry_on_api_error(...)(func): the arguments of @retry are evaluated when
\* the decorator is applied; logger is a logging.Logger, which has no
\* attribute INFO, so before_sleep_log(logger, logger.INFO) raises
\* AttributeError and func is never wrapped nor called
ApplyRetryOnApiError ==
    /\ rt_path = "api"
    /\ rt_pc = "start"
    /\ rt_pc' = "raised"
    /\ rt_raised' = Some(Raised("AttributeError", "none"))
    /\ UNCHANGED <<rt_path, rt_attempts, rt_errors>>
    /\ UNCHANGED OthersOfRt

\* the first upstream call of execute or of analyze_code_changes
FirstCall ==
    /\ rt_path \in {"op", "ai"}
    /\ rt_pc = "start"
    /\ rt_pc' = "calling"
    /\ rt_attempts' = 1
    /\ UNCHANGED <<rt_path, rt_errors, rt_raised>>
    /\ UNCHANGED OthersOfRt

\* the upstream call returns: the invocation returns its result
CallReturns ==
    /\ rt_pc = "calling"
    /\ rt_pc' = "returned"
    /\ UNCHANGED <<rt_path, rt_attempts, rt_errors, rt_raised>>
    /\ UNCHANGED OthersOfRt

\* the upstream call raises e: the path waits for its next attempt or raises
CallRaises ==
    /\ rt_pc = "calling"
    /\ \E e \in UpstreamErrors(rt_path) :
          /\ rt_errors' = Append(rt_errors, e)
          /\ rt_pc' = after_failure(rt_path, e, rt_attempts)
          /\ rt_raised' = IF rt_pc' = "raised" THEN Some(raises(rt_path, e))
                          ELSE rt_raised
    /\ UNCHANGED <<rt_path, rt_attempts>>
    /\ UNCHANGED OthersOfRt

\* the backoff wait is over: the next upstream call
NextCall ==
    /\ rt_pc = "waiting"
    /\ rt_pc' = "calling"
    /\ rt_attempts' = rt_attempts + 1
    /\ UNCHANGED <<rt_path, rt_errors, rt_raised>>
    /\ UNCHANGED OthersOfRt

InitRetry ==
    /\ RlIdle
    /\ CbIdle
    /\ PaIdle
    /\ PlIdle
    /\ LimIdle
    /\ MlIdle
    /\ RvIdle
    /\ AnIdle
    /\ rt_path \in {"api", "op", "ai"}
    /\ rt_pc = "start"
    /\ rt_attempts = 0
    /\ rt_errors = <<>>
    /\ rt_raised = None

NextRetry ==
    \/ ApplyRetryOnApiError
    \/ FirstCall
    \/ CallReturns
    \/ CallRaises
    \/ NextCall

SpecRetry == InitRetry /\ [][NextRetry]_vars

(***************************************************************************)
(* Claims about the retry paths (checked under SpecRetry)                  *)
(***************************************************************************)
IsRateLimit(e) == e \in {"RateLimitException", "RateLimitError"}
IsTransient(e) == e \in retryable_exceptions \cup {"APIConnectionError"}

\* C7: on every retry path, once an upstream call has raised a rate-limit
\* condition no further call is made and the rate-limit condition is what
\* the caller gets.
C7_RateLimitNeverRetried ==
    \A k \in 1..Len(rt_errors) :
        IsRateLimit(rt_errors[k]) =>
            /\ rt_attempts = k
            /\ rt_pc = "raised"
            /\ rt_raised # None
            /\ IsRateLimit(rt_raised[1].type)

\* C8: at most 3 upstream calls per invocation; a further call is made only
\* after a transient error; a non-transient error propagates at once; after
\* the third failed call the last error propagates.
C8_BoundedTransientRetry ==
    /\ rt_attempts <= 3
    /\ \A k \in 1..Len(rt_errors) :
          (k < rt_attempts \/ rt_pc = "waiting") => IsTransient(rt_errors[k])
    /\ \A k \in 1..Len(rt_errors) :
          ~IsTransient(rt_errors[k]) =>
              /\ rt_attempts = k
              /\ rt_pc = "raised"
              /\ rt_raised = Some(Raised(rt_errors[k], "none"))
    /\ Len(rt_errors) = 3 =>
          /\ rt_pc = "raised"
          /\ rt_raised = Some(Raised(rt_errors[3], "none"))

(***************************************************************************)
(* Claims about _prepare_review_comments (checked under SpecReview)        *)
(***************************************************************************)
\* every candidate of the model carries the four required fields; a field
\* can be empty ("" or 0)
Prepared == rv_pc \notin {"idle", "start"}

\* the line of candidate c resolves against the patch of its own file
Resolves(c, pr_files) ==
    /\ c.filename # ""
    /\ c.line > 0
    /\ \E v \in ValidLines(PatchOf(pr_files, c.filename)) : Abs(v - c.line) <= 5

\* the line it resolves to: itself when valid, else the closest valid line,
\* the smaller of two equidistant ones
ResolvedLine(c, pr_files) ==
    LET V == ValidLines(PatchOf(pr_files, c.filename))
    IN  IF c.line \in V THEN c.line
        ELSE CHOOSE v \in V :
                \A w \in V : \/ Abs(v - c.line) < Abs(w - c.line)
                             \/ Abs(v - c.line) = Abs(w - c.line) /\ v <= w

\* the review comments are, in order, the entries of the candidates `which`
EntriesOf(which) ==
    /\ Len(rv_review_comments) = Len(which)
    /\ \A k \in 1..Len(which) :
          /\ k <= Len(rv_review_comments)
          /\ rv_review_comments[k].path = which[k].filename
          /\ rv_review_comments[k].line = ResolvedLine(which[k], rv_files)
          /\ rv_review_comments[k].line
                \in ValidLines(PatchOf(rv_files, which[k].filename))
          /\ rv_review_comments[k].body.message = which[k].message

ResolvingCandidates ==
    SelectSeq(rv_comments, LAMBDA c : Resolves(c, rv_files))

NonEmptyResolvingCandidates ==
    SelectSeq(rv_comments,
              LAMBDA c : /\ c.type # "" /\ c.message # <<>>
                         /\ Resolves(c, rv_files))

\* C15 (as claimed): the review comments are exactly one entry, in candidate
\* order, per candidate that has the fields filename, line, type and message
\* and whose line resolves against its own file's patch.
C15_EntryPerResolvingCandidate ==
    Prepared => EntriesOf(ResolvingCandidates)

\* C15 (amended): the review comments are exactly one entry, in candidate
\* order, per candidate whose fields filename, line, type and message are all
\* present and non-empty (truthy) and whose line resolves against its own
\* file's patch; the entry's path is the candidate's filename and its line the
\* resolved line, a valid line of that file's diff; every other candidate
\* (a field missing or empty, or resolution failing) produces no entry.
C15_EntryPerTruthyResolvingCandidate ==
    Prepared => EntriesOf(NonEmptyResolvingCandidates)

\* C15 witness: of three candidates one is placed on a neighbouring line, one
\* has an empty type and one cannot be resolved; one entry results.
C15_Witness ==
    /\ Prepared
    /\ Len(rv_comments) = 3
    /\ Len(rv_review_comments) = 1
    /\ \E i \in 1..3 : /\ Resolves(rv_comments[i], rv_files)
                       /\ rv_comments[i].type # ""
                       /\ rv_review_comments[1].line # rv_comments[i].line
                       /\ rv_review_comments[1].path = rv_comments[i].filename
    /\ \E i \in 1..3 : rv_comments[i].type = "" /\ Resolves(rv_comments[i], rv_files)
    /\ \E i \in 1..3 : ~Resolves(rv_comments[i], rv_files)

(***************************************************************************)
(* analyze_pr_background and PRAnalyzerService.analyze_pr_async: one run   *)
(* of the analysis of a pull request, from the fetch of the pull request   *)
(* to the status the background function returns.  The analysis of the     *)
(* files and the posting are the actions of _analyze_files and of          *)
(* post_pr_review above.                                                    *)
(***************************************************************************)
\* settings.MAX_FILE_SIZE_KB
MAX_FILE_SIZE_KB == 500

\* an entry of the list get_pr_files returns
PrFile(name, status, patch, changes) ==
    [filename |-> name, status |-> status, patch |-> patch, changes |-> changes]

\* names matched by one of RepoConfig.exclude_patterns ("*.min.js")
ExcludedNames == {"app.min.js"}

\* names matched by one of RepoConfig.file_patterns or with a supported extension
IncludedNames ==
    {FileNames[k] : k \in DOMAIN FileNames} \cup {"app.min.js", "old.py", "big.py"}

\* ConfigService.should_analyze_file: exclude patterns first, then include
\* patterns and supported extensions
should_analyze_file(filename) ==
    IF filename \in ExcludedNames THEN FALSE
    ELSE filename \in IncludedNames

\* _filter_files_for_analysis: the test of one file
keep_for_analysis(file_data) ==
    /\ file_data.status # "removed"
    /\ ~PatchIsFalsy(file_data.patch)
    /\ ~(file_data.changes > MAX_FILE_SIZE_KB * 10)
    /\ should_analyze_file(file_data.filename)

\* PRAnalyzerService._filter_files_for_analysis
filter_files_for_analysis(pr_files) == SelectSeq(pr_files, keep_for_analysis)

\* mutant: the review is posted with every comment of the analysis
comments_to_post_all(all_comments, limited_comments) == all_comments

\* analyze_pr_async, lines 78-84: the comments handed to post_pr_review
comments_to_post(all_comments, limited_comments) == limited_comments

\* analyze_pr_background: the status returned for what analyze_pr_async
\* returned or raised
background_status(analysis) ==
    IF analysis = "PRAnalysisException" THEN "failed" ELSE "completed"

\* CommentService.post_error_comment: the notice it would post
error_comment ==
    [summary |-> "BoxedBot Analysis Failed", findings |-> <<>>,
     footer |-> "Generated by BoxedBot"]

\* what get_repo_config can return (max_comments_per_pr is validated)
RepoConfig(enabled, skip_draft_prs, max_comments_per_pr) ==
    [enabled |-> enabled, skip_draft_prs |-> skip_draft_prs,
     max_comments_per_pr |-> max_comments_per_pr]

RepoConfigs ==
    { RepoConfig(FALSE, TRUE, 20),
      RepoConfig(TRUE, TRUE, MaxCommentsLow),
      RepoConfig(TRUE, FALSE, 20) }

MaxPrFiles == 6
MaxSkipTail == 1

\* k files that pass the filter
OkFiles(k) == [j \in 1..k |-> PrFile(FileNames[j], "modified", PatchGood, j)]

\* files the filter drops: deleted, without patch, large, excluded, unmatched
SkippedFiles ==
    { PrFile("old.py", "removed", PatchGood, 2),
      PrFile("logo.png", "added", <<>>, 0),
      PrFile("big.py", "modified", PatchGood, MAX_FILE_SIZE_KB * 10 + 1),
      PrFile("app.min.js", "modified", PatchGood, 1),
      PrFile("README", "modified", PatchGood, 1) }

\* k files whose only valid line is far from every line of the Responses
FarFiles(k) == [j \in 1..k |-> PrFile(FileNames[j], "modified", PatchFar, j)]

PrFileLists ==
    { OkFiles(k) : k \in 0..MaxPrFiles }
    \cup { FarFiles(k) : k \in 1..MaxSkipTail }
    \cup { <<x>> \o OkFiles(k) : x \in SkippedFiles, k \in 0..MaxSkipTail }

\* analyze_pr_async, lines 45-47: the client, the repository and the pull
\* request are fetched, or one of the calls raises
PlSetup ==
    /\ pl_pc = "start"
    /\ \E ok \in BOOLEAN :
          /\ pl_pc' = IF ok THEN "config" ELSE "done"
          /\ pl_analysis' = IF ok THEN pl_analysis ELSE "PRAnalysisException"
          /\ pl_result' = IF ok THEN pl_result ELSE background_status(pl_analysis')
    /\ UNCHANGED <<pl_pr_files, pl_config, pl_draft, pl_limited, pl_limit_calls>>
    /\ UNCHANGED <<anVars, rvVars>>
    /\ UNCHANGED OthersOfPl

\* analyze_pr_async, lines 50-59: get_repo_config returns (it never raises);
\* a disabled configuration and a draft end the run as skipped
PlGetRepoConfig ==
    /\ pl_pc = "config"
    /\ pl_config' \in RepoConfigs
    /\ IF ~pl_config'.enabled \/ (pl_config'.skip_draft_prs /\ pl_draft)
       THEN /\ pl_pc' = "done"
            /\ pl_analysis' = "skipped"
            /\ pl_result' = background_status(pl_analysis')
       ELSE /\ pl_pc' = "files"
            /\ UNCHANGED <<pl_analysis, pl_result>>
    /\ UNCHANGED <<pl_pr_files, pl_draft, pl_limited, pl_limit_calls>>
    /\ UNCHANGED <<anVars, rvVars>>
    /\ UNCHANGED OthersOfPl

\* analyze_pr_async, lines 62-73: get_pr_files returns or raises; the files
\* are filtered; without a file to analyse the run is completed, else
\* _analyze_files is called
PlGetPrFiles ==
    /\ pl_pc = "files"
    /\ \E ok \in BOOLEAN :
          IF ~ok
          THEN /\ pl_pc' = "done"
               /\ pl_analysis' = "PRAnalysisException"
               /\ pl_result' = background_status(pl_analysis')
               /\ UNCHANGED anVars
          ELSE /\ an_files' = filter_files_for_analysis(pl_pr_files)
               /\ IF an_files' = <<>>
                  THEN /\ pl_pc' = "done"
                       /\ pl_analysis' = "completed"
                       /\ pl_result' = background_status(pl_analysis')
                       /\ UNCHANGED <<an_pc, an_task, an_attempts, an_result>>
                  ELSE /\ pl_pc' = "analyze"
                       /\ an_pc' = "start"
                       /\ an_task' = [f \in 1..Len(an_files') |-> "pending"]
                       /\ an_attempts' = [f \in 1..Len(an_files') |-> 0]
                       /\ an_result' = [f \in 1..Len(an_files') |-> NoResult]
                       /\ UNCHANGED <<pl_analysis, pl_result>>
               /\ UNCHANGED <<an_i, an_all_comments>>
    /\ UNCHANGED <<pl_pr_files, pl_config, pl_draft, pl_limited, pl_limit_calls>>
    /\ UNCHANGED rvVars
    /\ UNCHANGED OthersOfPl

\* analyze_pr_async, lines 73-84: _analyze_files has returned; the comments
\* are limited; post_pr_review is called when a comment is left
PlLimitComments ==
    /\ pl_pc = "analyze"
    /\ an_pc = "returned"
    /\ pl_limited' = limit_comments(an_all_comments, pl_config.max_comments_per_pr)
    /\ pl_limit_calls' = pl_limit_calls + 1
    /\ IF pl_limited' # <<>>
       THEN /\ pl_pc' = "post"
            /\ rv_pc' = "start"
            /\ rv_comments' = comments_to_post(an_all_comments, pl_limited')
            /\ rv_files' = pl_pr_files
            /\ UNCHANGED <<rv_review_comments, rv_reviews, rv_issue_comments,
                           rv_calls, rv_result>>
            /\ UNCHANGED <<pl_analysis, pl_result>>
       ELSE /\ pl_pc' = "done"
            /\ pl_analysis' = "completed"
            /\ pl_result' = background_status(pl_analysis')
            /\ UNCHANGED rvVars
    /\ UNCHANGED <<pl_pr_files, pl_config, pl_draft>>
    /\ UNCHANGED anVars
    /\ UNCHANGED OthersOfPl

\* analyze_pr_async, lines 86-102, and analyze_pr_background: post_pr_review
\* has returned or raised; an exception becomes PRAnalysisException, which
\* the background function logs and answers with the status failed
PlReviewDone ==
    /\ pl_pc = "post"
    /\ rv_pc \in {"returned", "raised"}
    /\ pl_pc' = "done"
    /\ pl_analysis' = IF rv_pc = "raised" THEN "PRAnalysisException" ELSE "completed"
    /\ pl_result' = background_status(pl_analysis')
    /\ UNCHANGED <<pl_pr_files, pl_config, pl_draft, pl_limited, pl_limit_calls>>
    /\ UNCHANGED <<anVars, rvVars>>
    /\ UNCHANGED OthersOfPl

InitPipeline ==
    /\ RlIdle
    /\ CbIdle
    /\ PaIdle
    /\ LimIdle
    /\ MlIdle
    /\ RvIdle
    /\ AnIdle
    /\ RtIdle
    /\ pl_pr_files \in PrFileLists
    /\ pl_draft \in BOOLEAN
    /\ pl_config = RepoConfig(TRUE, TRUE, 20)
    /\ pl_pc = "start"
    /\ pl_limited = <<>>
    /\ pl_limit_calls = 0
    /\ pl_analysis = "none"
    /\ pl_result = "none"

NextPipeline ==
    \/ PlSetup
    \/ PlGetRepoConfig
    \/ PlGetPrFiles
    \/ AnalyzeFilesStart
    \/ \E f \in DOMAIN an_task : TaskStart(f)
    \/ \E f \in DOMAIN an_task : AttemptOK(f)
    \/ \E f \in DOMAIN an_task : AttemptFail(f)
    \/ \E f \in DOMAIN an_task : RetryAttempt(f)
    \/ GatherDone
    \/ SleepDone
    \/ PlLimitComments
    \/ PostPrReviewStart
    \/ CreatePrReview
    \/ PostFallback
    \/ HandlerFallback
    \/ PlReviewDone

SpecPipeline == InitPipeline /\ [][NextPipeline]_vars

(***************************************************************************)
(* Claims about a whole analysis run (checked under SpecPipeline)          *)
(***************************************************************************)
\* the comments of all analysed files, in the order of the files
Aggregate == ContributionsUpTo(Len(an_files))

\* min(max_comments_per_pr, 10)
InlineLimit == Min(pl_config.max_comments_per_pr, HighRiskLimit)

\* something has been sent to the pull request, or a posting call was made
PostingBegun ==
    rv_calls # <<>> \/ rv_reviews # <<>> \/ rv_issue_comments # <<>>

\* C17: in every analysis run _limit_comments is applied at most once, and
\* when it is applied every batch has completed and its argument is the
\* aggregate of the comments of all analysed files; nothing is posted before
\* it, post_pr_review gets exactly the limited list, and no review carries
\* more than min(max_comments_per_pr, 10) inline comments.
C17_LimitedOnceBeforePosting ==
    /\ pl_limit_calls <= 1
    /\ pl_limit_calls = 1 =>
          /\ an_pc = "returned"
          /\ \A f \in DOMAIN an_task : an_task[f] \in {"done", "failed"}
          /\ pl_limited =
                limit_comments(Aggregate, pl_config.max_comments_per_pr)
    /\ pl_limit_calls = 0 => ~PostingBegun /\ rv_pc = "idle"
    /\ rv_pc # "idle" => rv_comments = pl_limited
    /\ Len(rv_reviews) <= 1
    /\ \A k \in 1..Len(rv_reviews) :
          /\ Len(rv_reviews[k].comments) <= InlineLimit
          /\ Len(rv_reviews[k].comments) <= Len(pl_limited)

\* C17 witness: the run is over, the analysis found more comments than the
\* limit allows and the review carries as many inline comments as allowed.
C17_Witness ==
    /\ pl_pc = "done"
    /\ pl_result = "completed"
    /\ Len(an_all_comments) > Len(pl_limited)
    /\ Len(rv_reviews) = 1
    /\ Len(rv_reviews[1].comments) = InlineLimit

\* C17, second witness: the cap of 10 is what bounds the list
C17_WitnessCapTen ==
    /\ pl_pc = "done"
    /\ pl_config.max_comments_per_pr > HighRiskLimit
    /\ Len(an_all_comments) > HighRiskLimit
    /\ Len(pl_limited) = HighRiskLimit
    /\ Len(rv_reviews) = 1

\* C18: when the run has failed, an error notice has been posted to the pull
\* request and no inline review comments have been posted by the run.
C18_ErrorNoticeOnFailure ==
    (pl_pc = "done" /\ pl_result = "failed") =>
        /\ \E k \in 1..Len(rv_issue_comments) : rv_issue_comments[k] = error_comment
        /\ rv_reviews = <<>>

\* the other half of C18 alone: a failed run has posted no review
FailedRunPostsNoReview ==
    (pl_pc = "done" /\ pl_result = "failed") => rv_reviews = <<>>

(***************************************************************************)
(* OpenAIService._parse_ai_response: the answer of the model is a text;    *)
(* it is described by what surrounds the JSON document (the fences) and by *)
(* the document itself.                                                     *)
(***************************************************************************)
\* a response text: `lead` and `trail` are what stands before and after the
\* document once the white space is stripped
\* ("[fence]" stands for the three backquotes of a code fence)
ResponseText(lead, doc, trail) == [lead |-> lead, doc |-> doc, trail |-> trail]

\* JSON documents: text that is no JSON, a value that is no array, an array
JsonInvalid == [kind |-> "invalid", items |-> <<>>]
JsonScalar(kind) == [kind |-> kind, items |-> <<>>]
JsonArray(items) == [kind |-> "array", items |-> items]

\* an element of the array: `keys` are the keys an object has
Element(isdict, keys, line, type, message) ==
    [isdict |-> isdict, keys |-> keys, line |-> line, type |-> type,
     category |-> "style", message |-> message, suggestion |-> <<"f","i","x">>,
     code_example |-> <<>>]

\* the keys _parse_ai_response requires
required_keys == {"line", "type", "category", "message"}

\* lines 209-214: the fences are removed from the stripped text
strip_fences(text) ==
    [lead |-> IF text.lead = "[fence]json" THEN "" ELSE text.lead,
     doc |-> text.doc,
     trail |-> IF text.trail = "[fence]" THEN "" ELSE text.trail]

\* json.loads: the value of the document, or JSONDecodeError
json_loads(text) ==
    IF text.lead # "" \/ text.trail # "" \/ text.doc.kind = "invalid"
    THEN [raised |-> TRUE, value |-> JsonInvalid]
    ELSE [raised |-> FALSE, value |-> text.doc]

\* mutant: the message is not among the required keys
has_required_fields_no_message(comment_data) ==
    {"line", "type", "category"} \subseteq comment_data.keys

\* line 229: all(key in comment_data for key in [...])
has_required_fields(comment_data) == required_keys \subseteq comment_data.keys

\* comment_data.get(key)
get(comment_data, key) ==
    IF key \in comment_data.keys THEN Some(comment_data[key]) ELSE None

\* lines 233-241: the comment made of an element
comment_of(comment_data, filename) ==
    [filename |-> filename,
     line |-> comment_data.line,
     type |-> comment_data.type,
     category |-> comment_data.category,
     message |-> comment_data.message,
     suggestion |-> get(comment_data, "suggestion"),
     code_example |-> get(comment_data, "code_example")]

\* lines 223-242: the loop over comments_data[k..]
RECURSIVE CommentsFrom(_, _, _, _)
CommentsFrom(comments_data, k, filename, comments) ==
    IF k > Len(comments_data) THEN comments
    ELSE IF ~comments_data[k].isdict
         THEN CommentsFrom(comments_data, k + 1, filename, comments)
    ELSE IF ~has_required_fields(comments_data[k])
         THEN CommentsFrom(comments_data, k + 1, filename, comments)
    ELSE CommentsFrom(comments_data, k + 1, filename,
                      Append(comments, comment_of(comments_data[k], filename)))

\* lines 215-221 and 244-250: what is returned for the outcome of json.loads
comments_of_loaded(loaded, filename) ==
    IF loaded.raised THEN <<>>
    ELSE IF loaded.value.kind # "array" THEN <<>>
    ELSE CommentsFrom(loaded.value.items, 1, filename, <<>>)

\* OpenAIService._parse_ai_response; a response of None (no content) raises
\* AttributeError at response.strip(), which the last handler answers with []
parse_ai_response(response, filename) ==
    IF response = None THEN <<>>
    ELSE comments_of_loaded(json_loads(strip_fences(response[1])), filename)

(***************************************************************************)
(* Inputs of _parse_ai_response                                            *)
(***************************************************************************)
Elements ==
    { Element(TRUE, required_keys, 3, "error", MsgBug),
      Element(TRUE, required_keys \cup {"suggestion"}, 7, "warning", MsgPlain),
      Element(TRUE, {"type", "category", "message"}, 0, "warning", MsgPlain),
      Element(TRUE, {"line", "type", "category"}, 5, "warning", <<>>),
      Element(TRUE, {"line", "message", "suggestion"}, 9, "", MsgPlain),
      Element(TRUE, {}, 0, "", <<>>),
      Element(FALSE, {}, 0, "", <<>>) }

MaxElements == 3

JsonDocuments ==
    { JsonInvalid, JsonScalar("object"), JsonScalar("string"), JsonScalar("null") }
    \cup { JsonArray(items) : items \in SeqsUpTo(Elements, MaxElements) }

Leads == {"", "[fence]json", "[fence]", "Here is the review:"}
Trails == {"", "[fence]"}

AiResponses ==
    { None } \cup { Some(ResponseText(l, d, t)) :
                      l \in Leads, d \in JsonDocuments, t \in Trails }

ParseAiResponse ==
    /\ pa_pc = "input"
    /\ pa_result' = parse_ai_response(pa_response, "a.py")
    /\ pa_pc' = "done"
    /\ UNCHANGED pa_response
    /\ UNCHANGED OthersOfPa

InitParseAi ==
    /\ RlIdle
    /\ CbIdle
    /\ LimIdle
    /\ MlIdle
    /\ RvIdle
    /\ AnIdle
    /\ RtIdle
    /\ PlIdle
    /\ pa_response \in AiResponses
    /\ pa_pc = "input"
    /\ pa_result = <<>>

NextParseAi == ParseAiResponse

SpecParseAi == InitParseAi /\ [][NextParseAi]_vars

(***************************************************************************)
(* Claims about _parse_ai_response (checked under SpecParseAi)             *)
(***************************************************************************)
\* the response is a JSON array, bare or inside a json fence
IsArrayResponse ==
    /\ pa_response # None
    /\ pa_response[1].lead \in {"", "[fence]json"}
    /\ pa_response[1].trail \in {"", "[fence]"}
    /\ pa_response[1].doc.kind = "array"

\* the objects of the array that have every required key, in order
CompleteObjects ==
    SelectSeq(pa_response[1].doc.items,
              LAMBDA e : e.isdict /\ {"line", "type", "category", "message"} \subseteq e.keys)

\* C22: a response that is no JSON or no JSON array gives the empty comment
\* list; of a JSON array the objects with all of line, type, category and
\* message are kept, in order and with their values, and every other
\* element is discarded.
C22_MalformedResponseGivesNoComments ==
    pa_pc = "done" =>
        IF IsArrayResponse
        THEN /\ Len(pa_result) = Len(CompleteObjects)
             /\ \A k \in 1..Len(CompleteObjects) :
                   /\ k <= Len(pa_result)
                   /\ pa_result[k].line = CompleteObjects[k].line
                   /\ pa_result[k].type = CompleteObjects[k].type
                   /\ pa_result[k].category = CompleteObjects[k].category
                   /\ pa_result[k].message = CompleteObjects[k].message
                   /\ pa_result[k].filename = "a.py"
        ELSE pa_result = <<>>

\* C22 witness: of three elements the first lacks `message`, the second is
\* complete and the third lacks `line`; one comment is returned
C22_Witness ==
    /\ pa_pc = "done"
    /\ IsArrayResponse
    /\ Len(pa_response[1].doc.items) = 3
    /\ "message" \notin pa_response[1].doc.items[1].keys
    /\ pa_response[1].doc.items[2].keys = {"line", "type", "category", "message"}
    /\ "line" \notin pa_response[1].doc.items[3].keys
    /\ Len(pa_result) = 1
    /\ pa_result[1].line = 3

\* C22, second witness: text that is no JSON gives the empty list
C22_WitnessInvalid ==
    /\ pa_pc = "done"
    /\ pa_response # None
    /\ pa_response[1].doc.kind = "invalid"
    /\ pa_result = <<>>

(***************************************************************************)
(* CircuitBreaker and with_retry_and_circuit_breaker: several callers use  *)
(* one breaker; a step of the model is the code of one coroutine between   *)
(* two awaits.  The breaker is openai_circuit_breaker.                      *)
(***************************************************************************)
\* openai_circuit_breaker: failure_threshold=3
failure_threshold == 3

\* openai_circuit_breaker: recovery_timeout=60.0, two units of cb_now
recovery_timeout == 2

\* openai_circuit_breaker: expected_exception=OpenAIAPIException
expected_exception == "OpenAIAPIException"

\* how an invocation of the operation can end
OperationOutcomes == {"ok", "OpenAIAPIException", "ConnectionError", "ValueError"}

NumCallers == 2
MaxInvocations == 6
MaxTime == 4

Callers == 1..NumCallers

\* mutant: a reset is attempted at every call
should_attempt_reset_always(last_failure_time, now) == TRUE

\* CircuitBreaker._should_attempt_reset
should_attempt_reset(last_failure_time, now) ==
    IF last_failure_time = None THEN TRUE
    ELSE now - last_failure_time[1] >= recovery_timeout

\* CircuitBreaker.call, lines 210-215: the call is refused
call_refused(state, last_failure_time, now) ==
    state = "OPEN" /\ ~should_attempt_reset(last_failure_time, now)

\* CircuitBreaker.call, lines 210-213: the state the operation is invoked in
state_on_entry(state, last_failure_time, now) ==
    IF state = "OPEN" /\ should_attempt_reset(last_failure_time, now)
    THEN "HALF_OPEN" ELSE state

\* mutant: every success resets the breaker
resets_on_success_always(state) == TRUE

\* CircuitBreaker.call, lines 220-223: _reset() is called after a success
resets_on_success(state) == state = "HALF_OPEN"

\* CircuitBreaker.call, lines 230-237: the state after _record_failure()
state_after_failure(state, failure_count) ==
    IF state = "HALF_OPEN" THEN "OPEN"
    ELSE IF failure_count >= failure_threshold THEN "OPEN"
    ELSE state

\* `except self.expected_exception`
is_expected(e) == e = expected_exception

\* where execute stands after an exception of attempt number `attempt`
execute_pc_after(e, attempt) ==
    IF execute_after_failure(e, attempt + 1) = "raised" THEN "raised" ELSE "sleeping"

\* with_retry_and_circuit_breaker is called: execute enters its loop
CbStart(c) ==
    /\ cb_pc[c] \in {"idle", "returned", "raised"}
    /\ cb_total < MaxInvocations
    /\ cb_pc' = [cb_pc EXCEPT ![c] = "calling"]
    /\ cb_attempt' = [cb_attempt EXCEPT ![c] = 0]
    /\ cb_invocations' = [cb_invocations EXCEPT ![c] = 0]
    /\ cb_outcome' = [cb_outcome EXCEPT ![c] = "none"]
    /\ cb_raised' = [cb_raised EXCEPT ![c] = "none"]
    /\ UNCHANGED <<cb_state, cb_failure_count, cb_last_failure_time, cb_now,
                   cb_streak, cb_total>>
    /\ UNCHANGED OthersOfCb

\* CircuitBreaker.call up to `await operation(...)`: the call is refused with
\* Exception, which execute does not retry, or the operation is invoked
CbCall(c) ==
    /\ cb_pc[c] = "calling"
    /\ IF call_refused(cb_state, cb_last_failure_time, cb_now)
       THEN /\ cb_pc' = [cb_pc EXCEPT ![c] = execute_pc_after("Exception", cb_attempt[c])]
            /\ cb_raised' = [cb_raised EXCEPT
                                ![c] = IF cb_pc'[c] = "raised" THEN "Exception" ELSE @]
            /\ UNCHANGED <<cb_state, cb_invocations, cb_total>>
       ELSE /\ cb_total < MaxInvocations
            /\ cb_state' = state_on_entry(cb_state, cb_last_failure_time, cb_now)
            /\ cb_pc' = [cb_pc EXCEPT ![c] = "awaiting"]
            /\ cb_invocations' = [cb_invocations EXCEPT ![c] = @ + 1]
            /\ cb_total' = cb_total + 1
            /\ UNCHANGED cb_raised
    /\ UNCHANGED <<cb_failure_count, cb_last_failure_time, cb_now, cb_attempt,
                   cb_outcome, cb_streak>>
    /\ UNCHANGED OthersOfCb

\* the operation returns: CircuitBreaker.call lines 218-225, execute returns
CbOperationReturns(c) ==
    /\ cb_pc[c] = "awaiting"
    /\ cb_outcome' = [cb_outcome EXCEPT ![c] = "ok"]
    /\ cb_state' = IF resets_on_success(cb_state) THEN "CLOSED" ELSE cb_state
    /\ cb_failure_count' = IF resets_on_success(cb_state) THEN 0 ELSE cb_failure_count
    /\ cb_last_failure_time' =
          IF resets_on_success(cb_state) THEN None ELSE cb_last_failure_time
    /\ cb_pc' = [cb_pc EXCEPT ![c] = "returned"]
    /\ cb_streak' = 0
    /\ UNCHANGED <<cb_now, cb_attempt, cb_invocations, cb_raised, cb_total>>
    /\ UNCHANGED OthersOfCb

\* the operation raises e: CircuitBreaker.call lines 227-239 (an exception
\* that is not the expected one passes through), then execute lines 148-172
CbOperationRaises(c) ==
    /\ cb_pc[c] = "awaiting"
    /\ \E e \in OperationOutcomes \ {"ok"} :
          /\ cb_outcome' = [cb_outcome EXCEPT ![c] = e]
          /\ cb_failure_count' =
                IF is_expected(e) THEN cb_failure_count + 1 ELSE cb_failure_count
          /\ cb_last_failure_time' =
                IF is_expected(e) THEN Some(cb_now) ELSE cb_last_failure_time
          /\ cb_state' =
                IF is_expected(e)
                THEN state_after_failure(cb_state, cb_failure_count')
                ELSE cb_state
          /\ cb_pc' = [cb_pc EXCEPT ![c] = execute_pc_after(e, cb_attempt[c])]
          /\ cb_raised' = [cb_raised EXCEPT
                              ![c] = IF cb_pc'[c] = "raised" THEN e ELSE @]
    /\ cb_streak' = cb_streak + 1
    /\ UNCHANGED <<cb_now, cb_attempt, cb_invocations, cb_total>>
    /\ UNCHANGED OthersOfCb

\* asyncio.sleep(delay) of execute is over: the next attempt
CbWake(c) ==
    /\ cb_pc[c] = "sleeping"
    /\ cb_pc' = [cb_pc EXCEPT ![c] = "calling"]
    /\ cb_attempt' = [cb_attempt EXCEPT ![c] = @ + 1]
    /\ UNCHANGED <<cb_state, cb_failure_count, cb_last_failure_time, cb_now,
                   cb_invocations, cb_outcome, cb_raised, cb_streak, cb_total>>
    /\ UNCHANGED OthersOfCb

\* time passes
CbTick ==
    /\ cb_pc # <<>>
    /\ cb_now < MaxTime
    /\ cb_now' = cb_now + 1
    /\ UNCHANGED <<cb_state, cb_failure_count, cb_last_failure_time, cb_pc,
                   cb_attempt, cb_invocations, cb_outcome, cb_raised, cb_streak,
                   cb_total>>
    /\ UNCHANGED OthersOfCb

InitBreaker ==
    /\ RlIdle
    /\ LimIdle
    /\ MlIdle
    /\ RvIdle
    /\ AnIdle
    /\ RtIdle
    /\ PlIdle
    /\ PaIdle
    /\ cb_state = "CLOSED"
    /\ cb_failure_count = 0
    /\ cb_last_failure_time = None
    /\ cb_now = 0
    /\ cb_pc = [c \in Callers |-> "idle"]
    /\ cb_attempt = [c \in Callers |-> 0]
    /\ cb_invocations = [c \in Callers |-> 0]
    /\ cb_outcome = [c \in Callers |-> "none"]
    /\ cb_raised = [c \in Callers |-> "none"]
    /\ cb_streak = 0
    /\ cb_total = 0

NextBreaker ==
    \/ \E c \in DOMAIN cb_pc : CbStart(c)
    \/ \E c \in DOMAIN cb_pc : CbCall(c)
    \/ \E c \in DOMAIN cb_pc : CbOperationReturns(c)
    \/ \E c \in DOMAIN cb_pc : CbOperationRaises(c)
    \/ \E c \in DOMAIN cb_pc : CbWake(c)
    \/ CbTick

SpecBreaker == InitBreaker /\ [][NextBreaker]_vars

(***************************************************************************)
(* Claims about the circuit breaker (checked under SpecBreaker)            *)
(***************************************************************************)
\* the time since the last recorded failure is shorter than recovery_timeout
CoolingDown ==
    /\ cb_last_failure_time # None
    /\ cb_now - cb_last_failure_time[1] < recovery_timeout

\* the step completes an invocation of the operation by caller c
Completes(c) == cb_pc[c] = "awaiting" /\ cb_pc'[c] # "awaiting"

\* C23: the breaker goes from CLOSED to OPEN only when the last
\* failure_threshold invocations that completed have all failed, without a
\* successful one between them.
C23_OpensAfterConsecutiveFailures ==
    [][(cb_state = "CLOSED" /\ cb_state' = "OPEN") =>
           cb_streak' >= failure_threshold]_vars

\* C24: every change of the state is CLOSED to OPEN, OPEN to HALF_OPEN (at
\* least recovery_timeout after the last failure), HALF_OPEN to CLOSED (by a
\* successful call, failure_count becoming 0) or HALF_OPEN to OPEN (by a
\* failed call), for every interleaving of the calls.
C24_OnlyAllowedTransitions ==
    [][cb_state' # cb_state =>
          \/ cb_state = "CLOSED" /\ cb_state' = "OPEN"
          \/ /\ cb_state = "OPEN" /\ cb_state' = "HALF_OPEN"
             /\ cb_last_failure_time # None
             /\ cb_now - cb_last_failure_time[1] >= recovery_timeout
          \/ /\ cb_state = "HALF_OPEN" /\ cb_state' = "CLOSED"
             /\ cb_failure_count' = 0
             /\ \E c \in DOMAIN cb_pc : Completes(c) /\ cb_outcome'[c] = "ok"
          \/ /\ cb_state = "HALF_OPEN" /\ cb_state' = "OPEN"
             /\ \E c \in DOMAIN cb_pc : Completes(c) /\ cb_outcome'[c] # "ok"]_vars

\* C24 witness: the breaker is CLOSED again after a reset, and a caller has
\* used up its three attempts on failures the breaker counted: the breaker
\* was opened, probed after the cooldown and closed by a success
C24_Witness ==
    /\ cb_state = "CLOSED"
    /\ cb_failure_count = 0
    /\ cb_last_failure_time = None
    /\ cb_now >= recovery_timeout
    /\ \E c \in DOMAIN cb_pc :
          /\ cb_raised[c] = "OpenAIAPIException"
          /\ cb_invocations[c] = 3
    /\ \E c \in DOMAIN cb_pc : cb_pc[c] = "returned" /\ cb_outcome[c] = "ok"

\* C24, second witness: a probe failed and the breaker is OPEN again
C24_WitnessProbeFailed ==
    /\ cb_state = "OPEN"
    /\ cb_failure_count = failure_threshold + 1
    /\ cb_now >= recovery_timeout

\* C27: a call made while the breaker is OPEN and less than recovery_timeout
\* has passed since the last failure raises without invoking the operation
\* and leaves state, failure_count and last_failure_time as they were.
C27_OpenRefusesWithoutInvoking ==
    [][\A c \in DOMAIN cb_pc :
          (/\ cb_pc[c] = "calling"
           /\ cb_pc'[c] # "calling"
           /\ cb_state = "OPEN"
           /\ CoolingDown)
          => /\ cb_pc'[c] = "raised"
             /\ cb_raised'[c] = "Exception"
             /\ cb_invocations'[c] = cb_invocations[c]
             /\ cb_total' = cb_total
             /\ cb_state' = cb_state
             /\ cb_failure_count' = cb_failure_count
             /\ cb_last_failure_time' = cb_last_failure_time]_vars

\* C27 witness: a call was refused by the open breaker during the cooldown
C27_Witness ==
    /\ cb_state = "OPEN"
    /\ CoolingDown
    /\ \E c \in DOMAIN cb_pc :
          /\ cb_pc[c] = "raised"
          /\ cb_raised[c] = "Exception"
          /\ cb_invocations[c] = 0

\* C28: one call of with_retry_and_circuit_breaker invokes the operation at
\* most max_attempts times; every attempt that fails with the expected
\* exception adds one to failure_count; an attempt made while the breaker is
\* OPEN and cooling down does not invoke the operation, and its rejection
\* is not retried but reaches the caller at once.
C28_RetryThroughBreaker ==
    [][\A c \in DOMAIN cb_pc :
          /\ cb_invocations'[c] <= max_attempts
          /\ (Completes(c) /\ cb_outcome'[c] = expected_exception)
                => cb_failure_count' = cb_failure_count + 1
          /\ (/\ cb_pc[c] = "calling" /\ cb_pc'[c] # "calling"
              /\ cb_state = "OPEN" /\ CoolingDown)
                => /\ cb_pc'[c] = "raised"
                   /\ cb_raised'[c] = "Exception"
                   /\ cb_invocations'[c] = cb_invocations[c]]_vars

\* C28 witness: the second failure of a caller opened the breaker and its
\* third attempt was refused
C28_Witness ==
    \E c \in DOMAIN cb_pc :
        /\ cb_pc[c] = "raised"
        /\ cb_raised[c] = "Exception"
        /\ cb_attempt[c] = 2
        /\ cb_invocations[c] = 2
        /\ cb_outcome[c] = expected_exception
        /\ cb_state = "OPEN"

\* C28, second witness: three attempts, all failed
C28_WitnessThreeAttempts ==
    \E c \in DOMAIN cb_pc :
        /\ cb_pc[c] = "raised"
        /\ cb_invocations[c] = max_attempts
        /\ cb_raised[c] = "ConnectionError"


\* ---------------------------------------------------------------------------
\* The in-memory rate limiter (src/app/utils/rate_limiter.py).
\* A limits dictionary is a sequence of <<limit_name, max_requests>> pairs in
\* insertion order; None is the absent argument. Times are whole seconds.
\* ---------------------------------------------------------------------------

RATE_LIMIT_PER_MINUTE == 60

RATE_LIMIT_PER_HOUR == 1000

default_limits ==
    << <<"requests_per_minute", RATE_LIMIT_PER_MINUTE>>,
       <<"requests_per_hour", RATE_LIMIT_PER_HOUR>> >>

\* window_map.get(limit_name): Some(seconds), or None for an unknown name
get_window_seconds(limit_name) ==
    CASE limit_name = "requests_per_minute" -> Some(60)
      [] limit_name = "requests_per_hour" -> Some(3600)
      [] limit_name = "requests_per_day" -> Some(86400)
      [] OTHER -> None

\* limits or self._default_limits: None and the empty dictionary are falsy
limits_or_default(limits) ==
    IF limits = None THEN default_limits ELSE limits

\* reading self._requests[key] of the defaultdict
requests_of(requests, key) ==
    IF key \in DOMAIN requests THEN requests[key] ELSE <<>>

\* self._requests[key] inserts an empty deque for a key that is absent
touched(requests, key) ==
    IF key \in DOMAIN requests THEN requests ELSE requests @@ (key :> <<>>)

\* while deque and deque[0] < cutoff_time: deque.popleft()
RECURSIVE popleft_old(_, _)
popleft_old(deque, cutoff_time) ==
    IF deque # <<>> /\ deque[1] < cutoff_time
    THEN popleft_old(Tail(deque), cutoff_time)
    ELSE deque

cleanup_old_requests(requests, key, current_time) ==
    IF key \notin DOMAIN requests
    THEN requests
    ELSE [requests EXCEPT ![key] = popleft_old(requests[key], current_time - 3600)]

\* sum(1 for req_time in deque if req_time >= window_start)
recent_requests(deque, window_start) ==
    Cardinality({i \in DOMAIN deque : deque[i] >= window_start})

\* the first position of a non-empty set of positions
first_of(positions) ==
    CHOOSE i \in positions : \A j \in positions : i <= j

limit_reached_over(recent, max_requests) ==
    recent > max_requests

limit_reached(recent, max_requests) ==
    recent >= max_requests

\* the positions of the limits the loop would stop at
exceeded_limits(deque, limits, current_time) ==
    {i \in DOMAIN limits :
        /\ get_window_seconds(limits[i][1]) # None
        /\ limit_reached(
               recent_requests(deque, current_time - get_window_seconds(limits[i][1])[1]),
               limits[i][2])}

calculate_retry_after(deque, limit_name, current_time) ==
    IF get_window_seconds(limit_name) = None THEN 60
    ELSE IF deque = <<>> THEN 1
    ELSE LET window_seconds == get_window_seconds(limit_name)[1]
             in_window == {i \in DOMAIN deque : deque[i] >= current_time - window_seconds}
         IN  IF in_window = {} THEN 1
             ELSE Max(1, deque[first_of(in_window)] + window_seconds - current_time + 1)

\* check_rate_limit: the dictionary afterwards and what the call returns or raises
check_rate_limit(requests, key, limits_arg, current_time) ==
    LET limits == limits_or_default(limits_arg)
        cleaned == cleanup_old_requests(requests, key, current_time)
        exceeded == exceeded_limits(requests_of(cleaned, key), limits, current_time)
    IN  IF exceeded # {}
        THEN [requests |-> touched(cleaned, key),
              allowed |-> FALSE,
              raised |-> "RateLimitException",
              limit |-> limits[first_of(exceeded)][1],
              retry_after |-> calculate_retry_after(requests_of(cleaned, key),
                                                    limits[first_of(exceeded)][1], current_time)]
        ELSE [requests |-> [touched(cleaned, key) EXCEPT
                               ![key] = Append(requests_of(cleaned, key), current_time)],
              allowed |-> TRUE,
              raised |-> "none",
              limit |-> "none",
              retry_after |-> 0]

reset_limits_all(requests, key) ==
    [k \in DOMAIN requests |-> <<>>]

reset_limits(requests, key) ==
    IF key \in DOMAIN requests
    THEN [requests EXCEPT ![key] = <<>>]
    ELSE requests

\* Inputs of the rate limiter
RlKeys == {"github_api_1", "openai_gpt-4_completion"}

LimitDicts ==
    { None,
      << <<"requests_per_minute", 2>>, <<"requests_per_hour", 3>> >>,
      << <<"requests_per_hour", 2>>, <<"requests_per_day", 4>> >>,
      << <<"tokens_per_minute", 0>>, <<"requests_per_minute", 1>> >> }

\* the limits the keys are checked with: any dictionary for the first key, the
\* two-window dictionary for the second
KeyLimits ==
    {f \in [RlKeys -> LimitDicts] :
        f["openai_gpt-4_completion"]
            = << <<"requests_per_minute", 2>>, <<"requests_per_hour", 3>> >>}

\* the clock advances by one of these numbers of seconds
TimeSteps == {1, 60, 3540}

MaxTicks == 3

MaxRlCalls == 4

RlCheck(key) ==
    /\ rl_last # <<>>
    /\ rl_calls < MaxRlCalls
    /\ LET r == check_rate_limit(rl_requests, key, rl_limits[key], rl_now)
       IN  /\ rl_requests' = r.requests
           /\ rl_last' = [op |-> "check_rate_limit", key |-> key, now |-> rl_now,
                          before |-> rl_requests, allowed |-> r.allowed,
                          raised |-> r.raised, limit |-> r.limit,
                          retry_after |-> r.retry_after]
           /\ rl_admitted' = IF r.allowed
                             THEN [rl_admitted EXCEPT ![key] = Append(@, rl_now)]
                             ELSE rl_admitted
    /\ rl_calls' = rl_calls + 1
    /\ UNCHANGED <<rl_limits, rl_now, rl_ticks, rl_was_reset>>
    /\ UNCHANGED OthersOfRl

RlReset(key) ==
    /\ rl_last # <<>>
    /\ rl_calls < MaxRlCalls
    /\ rl_requests' = reset_limits(rl_requests, key)
    /\ rl_last' = [op |-> "reset_limits", key |-> key, now |-> rl_now,
                   before |-> rl_requests, allowed |-> TRUE, raised |-> "none",
                   limit |-> "none", retry_after |-> 0]
    /\ rl_was_reset' = rl_was_reset \cup {key}
    /\ rl_calls' = rl_calls + 1
    /\ UNCHANGED <<rl_limits, rl_now, rl_ticks, rl_admitted>>
    /\ UNCHANGED OthersOfRl

\* time passes
RlTick(step) ==
    /\ rl_last # <<>>
    /\ rl_ticks < MaxTicks
    /\ rl_now' = rl_now + step
    /\ rl_ticks' = rl_ticks + 1
    /\ UNCHANGED <<rl_requests, rl_limits, rl_calls, rl_last, rl_admitted, rl_was_reset>>
    /\ UNCHANGED OthersOfRl

InitRateLimit ==
    /\ LimIdle
    /\ MlIdle
    /\ RvIdle
    /\ AnIdle
    /\ RtIdle
    /\ PlIdle
    /\ PaIdle
    /\ CbIdle
    /\ rl_requests = <<>>
    /\ rl_limits \in KeyLimits
    /\ rl_now = 0
    /\ rl_ticks = 0
    /\ rl_calls = 0
    /\ rl_last = [op |-> "none", key |-> "none", now |-> 0, before |-> <<>>,
                  allowed |-> TRUE, raised |-> "none", limit |-> "none",
                  retry_after |-> 0]
    /\ rl_admitted = [k \in RlKeys |-> <<>>]
    /\ rl_was_reset = {}

NextRateLimit ==
    \/ \E key \in RlKeys : RlCheck(key)
    \/ \E key \in RlKeys : RlReset(key)
    \/ \E step \in TimeSteps : RlTick(step)

SpecRateLimit == InitRateLimit /\ [][NextRateLimit]_vars

\* the limit a key is checked with under the given name, as a set (empty: none)
LimitOf(key, limit_name) ==
    {p[2] : p \in {limits_or_default(rl_limits[key])[i] :
                      i \in DOMAIN limits_or_default(rl_limits[key])} \cap
                  ({limit_name} \X (0..RATE_LIMIT_PER_HOUR))}

\* the admitted timestamps of a key that lie in the window [from, from + seconds]
AdmittedIn(key, from, seconds) ==
    {i \in DOMAIN rl_admitted[key] :
        rl_admitted[key][i] >= from /\ rl_admitted[key][i] <= from + seconds}

WindowsRespected(key, limit_name, seconds) ==
    \A max_requests \in LimitOf(key, limit_name) :
        \A i \in DOMAIN rl_admitted[key] :
            Cardinality(AdmittedIn(key, rl_admitted[key][i], seconds)) <= max_requests

\* C26: for a key that is only ever checked (never reset) with the same limits
\* at non-decreasing times, the admitted requests whose timestamp lies in any
\* window of 60 seconds never number more than the per-minute limit, nor in any
\* window of 3600 seconds more than the per-hour limit (a window holding the
\* most timestamps can be taken to start at one of them); and a call that
\* finds a limit reached raises RateLimitException.
C26_SlidingWindowLimits ==
    rl_last # <<>> =>
        /\ \A key \in RlKeys \ rl_was_reset :
              /\ WindowsRespected(key, "requests_per_minute", 60)
              /\ WindowsRespected(key, "requests_per_hour", 3600)
        /\ rl_last.op = "check_rate_limit" =>
              LET deque == requests_of(
                      cleanup_old_requests(rl_last.before, rl_last.key, rl_last.now),
                      rl_last.key)
                  full(limit_name, seconds) ==
                      \E max_requests \in LimitOf(rl_last.key, limit_name) :
                          recent_requests(deque, rl_last.now - seconds) >= max_requests
              IN  (full("requests_per_minute", 60) \/ full("requests_per_hour", 3600))
                      => rl_last.raised = "RateLimitException"

\* a key that was refused under its per-minute limit, and admitted again once
\* the window had moved on
C26_Witness ==
    /\ rl_last # <<>>
    /\ rl_last.op = "check_rate_limit"
    /\ rl_last.allowed
    /\ rl_last.key \notin rl_was_reset
    /\ \E max_requests \in LimitOf(rl_last.key, "requests_per_minute") :
          /\ Len(rl_admitted[rl_last.key]) > max_requests
          /\ max_requests > 0

\* a call refused under the per-hour limit while the per-minute limit had room
C26_WitnessHour ==
    /\ rl_last # <<>>
    /\ rl_last.op = "check_rate_limit"
    /\ rl_last.raised = "RateLimitException"
    /\ rl_last.limit = "requests_per_hour"
    /\ rl_last.key \notin rl_was_reset
    /\ LimitOf(rl_last.key, "requests_per_minute") # {}

\* the history of a key: absent and empty are the same history
SameHistory(key) ==
    requests_of(rl_requests, key) = requests_of(rl_last.before, key)

\* C30: a check_rate_limit call that raises RateLimitException records no
\* timestamp for its key, and a check_rate_limit or reset_limits call on one
\* key leaves the recorded history of every other key as it was.
C30_RejectionAndOtherKeysUntouched ==
    (rl_last # <<>> /\ rl_last.op # "none") =>
        /\ (rl_last.op = "check_rate_limit" /\ rl_last.raised = "RateLimitException") =>
              LET before == requests_of(rl_last.before, rl_last.key)
              IN  \E n \in 0..Len(before) :
                      requests_of(rl_requests, rl_last.key)
                          = SubSeq(before, n + 1, Len(before))
        /\ \A key \in RlKeys \ {rl_last.key} : SameHistory(key)

\* a refused call on one key while the other key has a recorded history
C30_Witness ==
    /\ rl_last # <<>>
    /\ rl_last.op = "check_rate_limit"
    /\ rl_last.raised = "RateLimitException"
    /\ requests_of(rl_requests, rl_last.key) # <<>>
    /\ \E key \in RlKeys \ {rl_last.key} : requests_of(rl_requests, key) # <<>>

\* reset_limits on a key with a history while the other key has one too
C30_WitnessReset ==
    /\ rl_last # <<>>
    /\ rl_last.op = "reset_limits"
    /\ requests_of(rl_last.before, rl_last.key) # <<>>
    /\ \E key \in RlKeys \ {rl_last.key} : requests_of(rl_requests, key) # <<>>

====
